---- MODULE Spec2Model ----
(***************************************************************************)
(* Business-status resolution engine of the restaurant site:              *)
(*   BusinessHours   (src/public/js/business-hours.js)                     *)
(*   MicroCMSClient  (src/unnamed/part_001, js/microcms-client.js)         *)
(*   TorimaruApp     (src/public/js/config.js)                             *)
(*                                                                         *)
(* Time is Date.now() in milliseconds, counted from local midnight of      *)
(* Saturday, December 27.  The window covers the Dec 29 - Jan 3 holiday    *)
(* range, Mondays inside and outside of it, and ordinary business days.    *)
(* Times of day of the configuration are kept in minutes (20.5 h = 1230).  *)
(* Optional JSON fields (null / undefined / missing) are sequences of      *)
(* length 0 or 1.  User-visible Japanese texts are replaced by ASCII tags. *)
(***************************************************************************)
EXTENDS Integers, Sequences, FiniteSets, TLC

\* ------------------------------------------------------------------------
\* Calendar (JavaScript Date, local time)
\* ------------------------------------------------------------------------
SecondMs == 1000
MinuteMs == 60 * 1000
HourMs   == 60 * 60 * 1000
DayMs    == 24 * 60 * 60 * 1000

\* weekday of day 0 of the window: Saturday (0 = Sunday ... 6 = Saturday)
EpochWeekday == 6
\* day of month of day 0 of the window: December 27
EpochDate == 27

DayIndex(t) == t \div DayMs

\* Date.prototype.getDay
getDay(t) == (EpochWeekday + DayIndex(t)) % 7

\* Date.prototype.getMonth() + 1
getMonth1(t) == IF DayIndex(t) <= 31 - EpochDate THEN 12 ELSE 1

\* Date.prototype.getDate
getDate(t) ==
    IF DayIndex(t) <= 31 - EpochDate
    THEN EpochDate + DayIndex(t)
    ELSE DayIndex(t) - (31 - EpochDate)

\* the hour of the day nine hours to the west (getUTCHours in Japan)
getHours_UTC(t) == (((t % DayMs) \div HourMs) + 15) % 24

\* Date.prototype.getHours / getMinutes
getHours(t)   == (t % DayMs) \div HourMs
getMinutes(t) == (t % HourMs) \div MinuteMs

\* the timestamp of day index d at h:m:00.000
AtTime(d, h, m) == d * DayMs + h * HourMs + m * MinuteMs

\* ------------------------------------------------------------------------
\* CONFIG.business (times of day in minutes)
\* ------------------------------------------------------------------------
openTime      == 11 * 60
closeTime     == 21 * 60
lastOrderTime == 20 * 60 + 30
closedDay     == 1

\* BusinessHours constructor
cmsCheckInterval == 30000
cacheTimeout     == 300000

\* utils.formatTime: 17.5 -> "17:30", kept as the pair <<hours, minutes>>
formatTime(timeMin) == << timeMin \div 60, timeMin % 60 >>

\* ------------------------------------------------------------------------
\* ScheduleCalculator
\* ------------------------------------------------------------------------
isHoliday(t) ==
    \/ getMonth1(t) = 12 /\ getDate(t) >= 29
    \/ getMonth1(t) = 1 /\ getDate(t) <= 3

RECURSIVE NextOpenDay_FromToday(_)
\* a while loop in place of the do/while: the given day is tested first
NextOpenDay_FromToday(t) ==
    IF getDay(t) = closedDay \/ isHoliday(t) THEN NextOpenDay_FromToday(t + DayMs) ELSE t

RECURSIVE NextOpenDay(_)
\* the do/while of getNextOpenTime: add one day, repeat while the day is
\* the closed weekday or a holiday
NextOpenDay(t) ==
    LET n == t + DayMs
    IN  IF getDay(n) = closedDay \/ isHoliday(n) THEN NextOpenDay(n) ELSE n

getNextOpenTime(t) ==
    LET n == NextOpenDay(t)
    IN  AtTime(DayIndex(n), openTime \div 60, openTime % 60)

\* a time of day that leaves the minutes out
TimeOfDay_HoursOnly(t) == getHours(t) * 60

\* time = hour + minute / 60, in minutes
TimeOfDay(t) == getHours(t) * 60 + getMinutes(t)

\* a schedule that checks the closed weekday before the holiday range
calculateAutoStatus_ClosedDayFirst(t) ==
    IF getDay(t) = closedDay
    THEN [isManual |-> FALSE, type |-> "closed", message |-> "regular-closing-day",
          detail |-> [text |-> "tomorrow-from", time |-> <<17, 30>>],
          nextOpen |-> getNextOpenTime(t)]
    ELSE IF isHoliday(t)
    THEN [isManual |-> FALSE, type |-> "holiday", message |-> "closed-for-holiday",
          detail |-> [text |-> "next-business-day-from", time |-> <<17, 30>>],
          nextOpen |-> getNextOpenTime(t)]
    ELSE IF TimeOfDay(t) >= openTime /\ TimeOfDay(t) < lastOrderTime
    THEN [isManual |-> FALSE, type |-> "open", message |-> "open",
          detail |-> [text |-> "until-close-last-order",
                      time |-> formatTime(closeTime),
                      lastOrder |-> formatTime(lastOrderTime)],
          remainingMinutes |-> lastOrderTime - TimeOfDay(t)]
    ELSE IF TimeOfDay(t) >= lastOrderTime /\ TimeOfDay(t) < closeTime
    THEN [isManual |-> FALSE, type |-> "last-order", message |-> "last-order",
          detail |-> [text |-> "orders-finished-today"],
          closingTime |-> closeTime]
    ELSE IF TimeOfDay(t) < openTime
    THEN [isManual |-> FALSE, type |-> "closed", message |-> "preparing",
          detail |-> [text |-> "today-from", time |-> formatTime(openTime)],
          minutesToOpen |-> openTime - TimeOfDay(t)]
    ELSE [isManual |-> FALSE, type |-> "closed", message |-> "finished",
          detail |-> [text |-> "tomorrow-from", time |-> formatTime(openTime)],
          nextOpen |-> getNextOpenTime(t)]

\* calculateAutoStatus(date): holiday range, closed weekday, then the time of
\* day; Math.round of a whole number of minutes is that number
calculateAutoStatus(t) ==
    IF isHoliday(t)
    THEN [isManual |-> FALSE, type |-> "holiday", message |-> "closed-for-holiday",
          detail |-> [text |-> "next-business-day-from", time |-> <<17, 30>>],
          nextOpen |-> getNextOpenTime(t)]
    ELSE IF getDay(t) = closedDay
    THEN [isManual |-> FALSE, type |-> "closed", message |-> "regular-closing-day",
          detail |-> [text |-> "tomorrow-from", time |-> <<17, 30>>],
          nextOpen |-> getNextOpenTime(t)]
    ELSE IF TimeOfDay(t) >= openTime /\ TimeOfDay(t) < lastOrderTime
    THEN [isManual |-> FALSE, type |-> "open", message |-> "open",
          detail |-> [text |-> "until-close-last-order",
                      time |-> formatTime(closeTime),
                      lastOrder |-> formatTime(lastOrderTime)],
          remainingMinutes |-> lastOrderTime - TimeOfDay(t)]
    ELSE IF TimeOfDay(t) >= lastOrderTime /\ TimeOfDay(t) < closeTime
    THEN [isManual |-> FALSE, type |-> "last-order", message |-> "last-order",
          detail |-> [text |-> "orders-finished-today"],
          closingTime |-> closeTime]
    ELSE IF TimeOfDay(t) < openTime
    THEN [isManual |-> FALSE, type |-> "closed", message |-> "preparing",
          detail |-> [text |-> "today-from", time |-> formatTime(openTime)],
          minutesToOpen |-> openTime - TimeOfDay(t)]
    ELSE [isManual |-> FALSE, type |-> "closed", message |-> "finished",
          detail |-> [text |-> "tomorrow-from", time |-> formatTime(openTime)],
          nextOpen |-> getNextOpenTime(t)]

\* ------------------------------------------------------------------------
\* Override records
\*   [id, status, reason, message, priority, startTime, endTime,
\*    customHours, publishedAt, updatedAt]
\*   status = [array |-> BOOLEAN, v |-> sequence of kinds]
\*   reason, message, customHours: strings, "" when empty or missing
\*   priority, startTime, endTime, publishedAt: <<>> when missing, else <<n>>
\* ------------------------------------------------------------------------
Scalar(kind) == [array |-> FALSE, v |-> <<kind>>]
Array(kinds) == [array |-> TRUE, v |-> kinds]

\* x || d for strings
OrStr(x, d) == IF x = "" THEN d ELSE x

\* a normalisation that takes the last element of an array
statusValue_Last(override) ==
    IF override.status.v = <<>> THEN "undefined"
    ELSE override.status.v[Len(override.status.v)]

\* statusValue = Array.isArray(status) ? status[0] : status
statusValue(override) ==
    IF override.status.v = <<>> THEN "undefined" ELSE override.status.v[1]

\* the kinds the switch of createManualStatus has a case for
KnownKinds == {"closed", "short", "special"}

\* the status built by the case of createManualStatus for a known kind
ManualFields(override, kind) ==
    LET baseStatus == [isManual |-> TRUE,
                       overrideId |-> override.id,
                       reason |-> override.reason,
                       customMessage |-> override.message,
                       startTime |-> override.startTime,
                       endTime |-> override.endTime]
    IN  CASE kind = "closed" ->
               [baseStatus EXCEPT !.customMessage =
                                     OrStr(override.message, "reopening-announced-later")]
               @@ [type |-> "emergency-closed", message |-> "temporarily-closed",
                   detail |-> [text |-> OrStr(override.reason, "temporarily-closed-default")]]
          [] kind = "short" ->
               baseStatus
               @@ [type |-> "short-hours", message |-> "short-hours-today",
                   detail |-> [text |-> OrStr(override.reason, "short-hours-default")],
                   customHours |-> override.customHours]
          [] kind = "special" ->
               baseStatus
               @@ [type |-> "special", message |-> "special-opening",
                   detail |-> [text |-> OrStr(override.message, "special-default")],
                   specialNote |-> override.reason]

\* a switch whose default case builds a closed status instead of falling back
createManualStatus_NoFallback(override, t) ==
    ManualFields(override, IF statusValue(override) \in KnownKinds
                           THEN statusValue(override) ELSE "closed")

\* a switch whose default case reports the unknown kind as an error status
createManualStatus_ErrorOnUnknown(override, t) ==
    IF statusValue(override) \in KnownKinds
    THEN ManualFields(override, statusValue(override))
    ELSE [isManual |-> TRUE, type |-> "error", message |-> "unknown-status",
          detail |-> [text |-> statusValue(override)]]

\* createManualStatus: the switch over statusValue with its default case
createManualStatus(override, t) ==
    IF statusValue(override) \in KnownKinds
    THEN ManualFields(override, statusValue(override))
    ELSE calculateAutoStatus(t)

\* ------------------------------------------------------------------------
\* Selection of the active override
\* ------------------------------------------------------------------------
\* item.priority || 1
Prio(item) ==
    IF item.priority = <<>> \/ item.priority[1] = 0 THEN 1 ELSE item.priority[1]

\* a filter that forgets the end time
IsValidOverride_NoEndCheck(item, t) ==
    /\ item.publishedAt # <<>>
    /\ ~(item.startTime # <<>> /\ item.startTime[1] > t)

\* the predicate of contents.filter(...)
IsValidOverride(item, t) ==
    /\ item.publishedAt # <<>>
    /\ ~(item.startTime # <<>> /\ item.startTime[1] > t)
    /\ ~(item.endTime # <<>> /\ item.endTime[1] < t)

\* a comparator that sorts by ascending priority
ComparePriority_Ascending(a, b) == Prio(a) - Prio(b)

\* the comparator of .sort(...): negative when a goes before b
ComparePriority(a, b) == Prio(b) - Prio(a)

RECURSIVE InsertSorted(_, _)
\* stable insertion: x goes after every element that does not compare
\* greater than it
InsertSorted(sorted, x) ==
    IF sorted = <<>> THEN <<x>>
    ELSE IF ComparePriority(Head(sorted), x) <= 0
         THEN <<Head(sorted)>> \o InsertSorted(Tail(sorted), x)
         ELSE <<x>> \o sorted

RECURSIVE SortByPriority(_)
\* Array.prototype.sort with ComparePriority (stable)
SortByPriority(s) ==
    IF s = <<>> THEN <<>>
    ELSE InsertSorted(SortByPriority(SubSeq(s, 1, Len(s) - 1)), s[Len(s)])

RECURSIVE FilterValid(_, _)
\* contents.filter(...): the valid items, in list order
FilterValid(contents, t) ==
    IF contents = <<>> THEN <<>>
    ELSE (IF IsValidOverride(Head(contents), t) THEN <<Head(contents)>> ELSE <<>>)
         \o FilterValid(Tail(contents), t)

\* validOverrides.length > 0 ? validOverrides[0] : null, as <<>> or <<item>>
findActiveOverride(contents, t) ==
    LET validOverrides == SortByPriority(FilterValid(contents, t))
    IN  IF validOverrides = <<>> THEN <<>> ELSE <<validOverrides[1]>>

\* ------------------------------------------------------------------------
\* State
\* ------------------------------------------------------------------------
VARIABLES
    now,               \* Date.now()
    ticks,             \* number of clock advances so far
    phase,             \* "new" until BusinessHours.init has run, then "ready"
    windowApp,         \* window.app has been assigned
    bgRefresh,         \* timer of refreshInBackground: "none", "scheduled", "done"
    manualOverride,    \* this.manualOverride: <<>> or <<record>>
    overrideAssigned,  \* FALSE while this.manualOverride is still undefined
    overrideFromCache, \* this.manualOverride is an element of the array held
                       \* by the client cache (object identity)
    statusCache,       \* this.statusCache: <<>> or <<status>>
    lastCMSCheck,      \* this.lastCMSCheck: <<>> or <<t>>
    localStorage,      \* localStorage['businessOverride']: <<>> or <<string>>
    cache,             \* MicroCMSClient.cache.get('businessStatus'): <<>> or <<entry>>
    cms,               \* the records held by the Content Service, in answer order
    inflight,          \* requests to the Content Service awaiting their answer
    displayed,         \* the status last given to displayStatus: <<>> or <<status>>
    lastOp,            \* what the last step did (observation only)
    timers,            \* TimerManager.timers: name -> <<>> or <<entry>>
    timeouts,          \* TimerManager.timeouts: name -> <<>> or <<entry>>
    liveTimers,        \* the intervals and timeouts the browser will still fire
    handles,           \* number of handles setInterval / setTimeout have returned
    abortController,   \* MicroCMSClient.abortController: <<>> or <<call id>>
    newsCalls,         \* the loadNews calls made: [id, state of its request]
    newsCached         \* MicroCMSClient.cache holds a fresh 'news' entry

\* the fields of TimerManager with the browser's timers, and those of the
\* news loader
tmVars   == << timers, timeouts, liveTimers, handles >>
newsVars == << abortController, newsCalls, newsCached >>
extVars  == << tmVars, newsVars >>

vars == << now, ticks, phase, windowApp, bgRefresh, manualOverride, overrideAssigned,
           overrideFromCache, statusCache, lastCMSCheck, localStorage,
           cache, cms, inflight, displayed, lastOp, extVars >>

\* the fields of BusinessHours and its display
bhVars == << manualOverride, overrideAssigned, overrideFromCache, statusCache,
             lastCMSCheck, localStorage, displayed >>

\* ------------------------------------------------------------------------
\* Bounds and sample data
\* ------------------------------------------------------------------------
MaxTicks    == 2
MaxInflight == 2
MaxCands    == 2

\* The clock visits checkpoints after the session start: 1 ms before the
\* 30 s interval, the 5 min timeout, then every further 30 s.
Offset(k) ==
    CASE k = 0 -> 0
      [] k = 1 -> cmsCheckInterval - 1
      [] OTHER -> cacheTimeout + (k - 2) * cmsCheckInterval

\* session start: Tuesday Jan 6, 20:59:30 (last order; closed from 21:00)
StartTime == AtTime(10, 20, 59) + 30 * SecondMs

\* dates given to updateStatus(customDate): Mon Jan 5 12:00 (closed
\* weekday), Mon Dec 29 12:00 (holiday on the closed weekday)
CustomDates == {AtTime(9, 12, 0), AtTime(2, 12, 0)}

Rec(id, status, priority, startTime, endTime, publishedAt, updatedAt) ==
    [id |-> id, status |-> status, reason |-> "", message |-> "",
     priority |-> priority, startTime |-> startTime, endTime |-> endTime,
     customHours |-> "", publishedAt |-> publishedAt, updatedAt |-> updatedAt]

\* sample records, relative to the start time s of the session
RecClosed(s)  == [Rec("a", Scalar("closed"), <<5>>, <<>>, <<s + cmsCheckInterval>>,
                      <<s - HourMs>>, s - 2 * HourMs) EXCEPT !.reason = "typhoon"]
RecSpecial(s) == [Rec("b", Array(<<"special">>), <<1>>, <<s - HourMs>>, <<>>,
                      <<s - HourMs>>, s - HourMs) EXCEPT !.message = "festival"]
RecShort(s)   == [Rec("c", Scalar("short"), <<5>>, <<>>, <<>>,
                      <<s - HourMs>>, s - HourMs) EXCEPT !.customHours = "17-20"]
RecUnknown(s) == Rec("d", Scalar("holiday"), <<9>>, <<>>, <<>>, <<s - HourMs>>, s - HourMs)
RecExpired(s) == Rec("e", Scalar("closed"), <<9>>, <<>>, <<s - SecondMs>>, <<s - HourMs>>, s - HourMs)

\* candidate lists the Content Service may hold
CmsSamples(s) == { <<>>,
                   <<RecSpecial(s), RecClosed(s)>>,
                   <<RecUnknown(s)>> }

\* ------------------------------------------------------------------------
\* TimerManager and news loader at construction
\* ------------------------------------------------------------------------
\* the names timers and timeouts are registered under
TimerNames == {"businessStatus", "newsRefresh"}

\* new TimerManager(): both maps empty; no timer set; new MicroCMSClient():
\* abortController = null, cache empty
ExtIdle ==
    /\ timers = [n \in TimerNames |-> <<>>]
    /\ timeouts = [n \in TimerNames |-> <<>>]
    /\ liveTimers = {}
    /\ handles = 0
    /\ abortController = <<>>
    /\ newsCalls = {}
    /\ newsCached = FALSE

\* ------------------------------------------------------------------------
\* Observation of a step
\* ------------------------------------------------------------------------
NoOp == [name |-> "none", force |-> FALSE, outcome |-> "none",
         date |-> <<>>, resolved |-> <<>>, displayCalls |-> 0, events |-> <<>>,
         clientCalls |-> 0, requests |-> 0, storageOps |-> <<>>,
         candidates |-> <<>>, selected |-> <<>>, rejected |-> FALSE,
         origin |-> "", cleared |-> <<>>, snapshot |-> <<>>]

\* ------------------------------------------------------------------------
\* StatusResolver: BusinessHours.updateStatus
\* ------------------------------------------------------------------------
\* a resolver that lets the holiday range win over a held override
Resolve_HolidayFirst(override, t) ==
    IF override # <<>> /\ ~isHoliday(t)
    THEN createManualStatus(override[1], t)
    ELSE calculateAutoStatus(t)

\* the status updateStatus computes from the held override
Resolve(override, t) ==
    IF override # <<>>
    THEN createManualStatus(override[1], t)
    ELSE calculateAutoStatus(t)

\* a comparison that leaves the message out
SameAsCached_NoMessage(cached, status) ==
    /\ cached # <<>>
    /\ cached[1].type = status.type
    /\ cached[1].isManual = status.isManual

\* the comparison with this.statusCache that suppresses the update
SameAsCached(cached, status) ==
    /\ cached # <<>>
    /\ cached[1].type = status.type
    /\ cached[1].message = status.message
    /\ cached[1].isManual = status.isManual

\* an event detail whose isManual flag is not taken from the status
emitStatusChange_NotManual(status, t) ==
    [status |-> status, timestamp |-> t, isManual |-> FALSE]

\* the detail of the businessStatusChange event
emitStatusChange(status, t) ==
    [status |-> status, timestamp |-> t, isManual |-> status.isManual]

\* the events updateStatus fires for a status it does not suppress
EventsFor(status, t) == << emitStatusChange(status, t) >>

\* updateStatus(customDate) with this.manualOverride = override; op is the
\* observation of the calling step so far
updateStatus(override, customDate, op) ==
    LET t      == IF customDate # <<>> THEN customDate[1] ELSE now
        status == Resolve(override, t)
        seen   == [op EXCEPT !.date = <<t>>, !.resolved = <<status>>]
    IN  IF SameAsCached(statusCache, status)
        THEN /\ UNCHANGED << statusCache, displayed >>
             /\ lastOp' = seen
        ELSE /\ statusCache' = <<status>>
             /\ displayed' = <<status>>
             /\ lastOp' = [seen EXCEPT !.displayCalls = 1,
                                       !.events = EventsFor(status, now)]

\* the 30 s 'businessStatus' timer, loadInitialData, or a direct call
UpdateStatus(customDate) ==
    /\ phase = "ready"
    /\ updateStatus(manualOverride, customDate, [NoOp EXCEPT !.name = "updateStatus"])
    /\ UNCHANGED << extVars, now, ticks, phase, windowApp, bgRefresh, manualOverride,
                    overrideAssigned, overrideFromCache, lastCMSCheck, localStorage,
                    cache, cms, inflight >>

\* ------------------------------------------------------------------------
\* Persistent store and pre-rendered snapshot
\* ------------------------------------------------------------------------
\* JSON.stringify(record) and a string JSON.parse rejects
JSONstringify(record) == [valid |-> TRUE, value |-> record]
Garbage == [valid |-> FALSE]

\* what the browser's storage does in one operation: works, setItem throws
\* (quota), or every access throws (storage disabled)
StorageFaults == {"none", "quota", "disabled"}

SnapshotMaxAge == 5 * 60 * 1000

\* /data/business-status-cache.json as written by scripts/prebuild.js: not
\* served, or {contents, fetchedAt} of age just under / exactly 5 minutes
Snapshots(t) ==
    { <<>> } \cup
    { <<[contents |-> c, fetchedAt |-> f]>> :
        c \in CmsSamples(StartTime),
        f \in {t - SnapshotMaxAge + 1, t - SnapshotMaxAge} }

\* entries a previous session may have left in the store
StoredSamples(s) ==
    { <<>>, <<JSONstringify(RecShort(s))>>, <<JSONstringify(RecExpired(s))>> }

\* ------------------------------------------------------------------------
\* BusinessHours.init
\* ------------------------------------------------------------------------
\* a snapshot check that still accepts an age of exactly 5 minutes
SnapshotOverride_Inclusive(snap, t) ==
    IF snap # <<>> /\ t - snap[1].fetchedAt <= SnapshotMaxAge
    THEN findActiveOverride(snap[1].contents, t)
    ELSE <<>>

\* STEP1: the override taken from the snapshot
SnapshotOverride(snap, t) ==
    IF snap # <<>> /\ t - snap[1].fetchedAt < SnapshotMaxAge
    THEN findActiveOverride(snap[1].contents, t)
    ELSE <<>>

\* a restore that does not look at the end time of the entry
StoredOverride_NoEndCheck(stored, fault, t) ==
    IF /\ fault # "disabled"
       /\ stored # <<>>
       /\ stored[1].valid
    THEN <<stored[1].value>>
    ELSE <<>>

\* STEP2: the override taken from localStorage
StoredOverride(stored, fault, t) ==
    IF /\ fault # "disabled"
       /\ stored # <<>>
       /\ stored[1].valid
       /\ \/ stored[1].value.endTime = <<>>
          \/ stored[1].value.endTime[1] > t
    THEN <<stored[1].value>>
    ELSE <<>>

\* a startup that prefers the persisted entry to the snapshot
InitialOverride_StoreFirst(snap, stored, fault, t) ==
    IF StoredOverride(stored, fault, t) # <<>>
    THEN StoredOverride(stored, fault, t)
    ELSE SnapshotOverride(snap, t)

\* STEP1 then STEP2: the persisted entry is read only if (!this.manualOverride)
InitialOverride(snap, stored, fault, t) ==
    IF SnapshotOverride(snap, t) # <<>>
    THEN SnapshotOverride(snap, t)
    ELSE StoredOverride(stored, fault, t)

BHInit(snap, fault) ==
    /\ phase = "new"
    /\ LET fromSnap == SnapshotOverride(snap, now)
           override == InitialOverride(snap, localStorage, fault, now)
       IN  /\ manualOverride' = override
           /\ overrideAssigned' = (override # <<>>)
           /\ updateStatus(override, <<>>,
                  [NoOp EXCEPT !.name = "init",
                               !.storageOps = IF fromSnap # <<>> THEN <<>>
                                              ELSE IF fault = "disabled" THEN <<"get-throws">>
                                              ELSE <<"get">>,
                               !.selected = override,
                               !.snapshot = snap])
    /\ overrideFromCache' = FALSE
    /\ phase' = "ready"
    /\ bgRefresh' = "scheduled"
    /\ UNCHANGED << extVars, now, ticks, windowApp, lastCMSCheck, localStorage, cache, cms, inflight >>

\* the DOMContentLoaded handler assigns window.app after app.init()
PublishApp ==
    /\ phase = "ready"
    /\ ~windowApp
    /\ windowApp' = TRUE
    /\ lastOp' = [NoOp EXCEPT !.name = "publishApp"]
    /\ UNCHANGED << extVars, now, ticks, phase, bgRefresh, cache, cms, inflight >>
    /\ UNCHANGED bhVars

\* ------------------------------------------------------------------------
\* Content Service proxy: handleGet of api/business-status.js
\* ------------------------------------------------------------------------
RECURSIVE InsertByUpdatedAt(_, _)
InsertByUpdatedAt(sorted, x) ==
    IF sorted = <<>> THEN <<x>>
    ELSE IF Head(sorted).updatedAt >= x.updatedAt
         THEN <<Head(sorted)>> \o InsertByUpdatedAt(Tail(sorted), x)
         ELSE <<x>> \o sorted

RECURSIVE OrderByUpdatedAt(_)
\* orders = '-updatedAt'
OrderByUpdatedAt(s) ==
    IF s = <<>> THEN <<>>
    ELSE InsertByUpdatedAt(OrderByUpdatedAt(SubSeq(s, 1, Len(s) - 1)), s[Len(s)])

\* the post-processing of one item: priority: item.priority || 1
ProcessItem(item) == [item EXCEPT !.priority = <<Prio(item)>>]

\* the contents of a 200 answer
handleGet(records) ==
    LET ordered == OrderByUpdatedAt(records)
    IN  [i \in 1..Len(ordered) |-> ProcessItem(ordered[i])]

\* what a request to the proxy can end in
Outcomes == {"ok", "notfound", "http-error", "malformed", "network"}

\* ------------------------------------------------------------------------
\* MicroCMSClient.loadBusinessStatus
\* ------------------------------------------------------------------------
BusinessStatusTTL == 30 * 1000

\* a cache check that still serves an entry of exactly 30 seconds
CachedData_Inclusive(entry, forceRefresh, t) ==
    IF ~forceRefresh /\ entry # <<>> /\ t - entry[1].timestamp <= BusinessStatusTTL
    THEN <<entry[1].data>>
    ELSE <<>>

\* the cache entry loadBusinessStatus(forceRefresh) answers from, if any
CachedData(entry, forceRefresh, t) ==
    IF ~forceRefresh /\ entry # <<>> /\ t - entry[1].timestamp < BusinessStatusTTL
    THEN <<entry[1].data>>
    ELSE <<>>

\* a load that parses the body of an answer whatever its HTTP status
LoadedData_WhateverStatus(outcome, records) ==
    IF outcome \in {"ok", "http-error"} THEN handleGet(records) ELSE <<>>

\* the array loadBusinessStatus resolves to when the request ends in outcome
LoadedData(outcome, records) ==
    IF outcome = "ok" THEN handleGet(records) ELSE <<>>

\* the cache after the request ended in outcome
CacheAfterLoad(entry, outcome, records, t) ==
    IF outcome = "ok"
    THEN <<[data |-> handleGet(records), timestamp |-> t]>>
    ELSE entry

\* ------------------------------------------------------------------------
\* OverrideStore: BusinessHours.checkManualOverride
\* ------------------------------------------------------------------------
\* a rate limit whose comparison is inverted
RefreshSkipped_Inverted(forceRefresh, last, t) ==
    /\ ~forceRefresh
    /\ last # <<>>
    /\ t - last[1] > cacheTimeout

\* the rate limit at the head of checkManualOverride
RefreshSkipped(forceRefresh, last, t) ==
    /\ ~forceRefresh
    /\ last # <<>>
    /\ t - last[1] < cacheTimeout

\* the forceRefresh argument checkManualOverride hands to loadBusinessStatus
ForwardedForce(forceRefresh) == FALSE

\* activeOverride !== this.manualOverride is FALSE: both null, or the same
\* element of the array held by the client cache
SameOverride(sel, fresh) ==
    IF sel = <<>>
    THEN overrideAssigned /\ manualOverride = <<>>
    ELSE /\ ~fresh
         /\ overrideFromCache
         /\ manualOverride # <<>>
         /\ manualOverride[1].id = sel[1].id

\* a refresh that persists whatever it selected: JSON.stringify(null) is
\* written when nothing is selected
businessOverrideAfter_Always(sel, fault, stored) ==
    CASE fault = "disabled" -> stored
      [] fault = "quota"    -> <<>>
      [] sel # <<>>         -> <<JSONstringify(sel[1])>>
      [] OTHER              -> <<Garbage>>

\* localStorage['businessOverride'] after the try/catch of a refresh that
\* selected sel while stored was persisted: setItem only for a present
\* selection, removeItem otherwise and in the catch block
businessOverrideAfter(sel, fault, stored) ==
    CASE fault = "disabled"            -> stored
      [] sel # <<>> /\ fault = "none"  -> <<JSONstringify(sel[1])>>
      [] OTHER                         -> <<>>

\* the part of checkManualOverride after the await: data is the array
\* loadBusinessStatus resolved to, fresh tells that it was parsed from a new
\* answer rather than taken from the client cache
ApplyRefresh(data, fresh, fault, op) ==
    LET sel == findActiveOverride(data, now)
        op1 == [op EXCEPT !.selected = sel]
    IN  /\ lastCMSCheck' = <<now>>
        /\ IF SameOverride(sel, fresh)
           THEN /\ lastOp' = op1
                /\ UNCHANGED << manualOverride, overrideAssigned, overrideFromCache,
                                localStorage, statusCache, displayed >>
           ELSE /\ overrideAssigned' = TRUE
                /\ localStorage' = businessOverrideAfter(sel, fault, localStorage)
                /\ CASE sel # <<>> /\ fault = "none" ->
                          \* setItem, then updateStatus
                          /\ manualOverride' = sel
                          /\ overrideFromCache' = TRUE
                          /\ updateStatus(sel, <<>>, [op1 EXCEPT !.storageOps = <<"set">>])
                     [] sel # <<>> /\ fault = "quota" ->
                          \* setItem throws; catch: removeItem, drop the override
                          /\ manualOverride' = <<>>
                          /\ overrideFromCache' = FALSE
                          /\ updateStatus(<<>>, <<>>,
                                 [op1 EXCEPT !.storageOps = <<"set-throws", "remove">>])
                     [] sel # <<>> /\ fault = "disabled" ->
                          \* setItem throws; catch: removeItem throws as well
                          /\ manualOverride' = sel
                          /\ overrideFromCache' = TRUE
                          /\ lastOp' = [op1 EXCEPT !.storageOps = <<"set-throws", "remove-throws">>,
                                                   !.rejected = TRUE]
                          /\ UNCHANGED << statusCache, displayed >>
                     [] sel = <<>> /\ fault # "disabled" ->
                          \* removeItem, then updateStatus
                          /\ manualOverride' = <<>>
                          /\ overrideFromCache' = FALSE
                          /\ updateStatus(<<>>, <<>>, [op1 EXCEPT !.storageOps = <<"remove">>])
                     [] sel = <<>> /\ fault = "disabled" ->
                          \* removeItem throws in the try block and in the catch block
                          /\ manualOverride' = <<>>
                          /\ overrideFromCache' = FALSE
                          /\ lastOp' = [op1 EXCEPT !.storageOps = <<"remove-throws", "remove-throws">>,
                                                   !.rejected = TRUE]
                          /\ UNCHANGED << statusCache, displayed >>

\* an outstanding fetch of loadBusinessStatus; from names the caller of
\* checkManualOverride that awaits it ("check" or "set")
LoadRequest(from) == [op |-> "load", from |-> from, data |-> <<>>]

\* checkManualOverride(forceRefresh) up to its await
checkManualOverride(forceRefresh, fault, name) ==
    LET op == [NoOp EXCEPT !.name = name, !.force = forceRefresh]
        hit == CachedData(cache, ForwardedForce(forceRefresh), now)
    IN  IF RefreshSkipped(forceRefresh, lastCMSCheck, now)
        THEN /\ lastOp' = [op EXCEPT !.outcome = "skipped"]
             /\ UNCHANGED << inflight >>
             /\ UNCHANGED bhVars
        ELSE IF ~windowApp
        THEN /\ lastOp' = [op EXCEPT !.outcome = "no-client"]
             /\ UNCHANGED << inflight >>
             /\ UNCHANGED bhVars
        ELSE IF hit # <<>>
        THEN /\ ApplyRefresh(hit[1], FALSE, fault,
                    [op EXCEPT !.outcome = "cached", !.clientCalls = 1])
             /\ UNCHANGED << inflight >>
        ELSE /\ Len(inflight) < MaxInflight
             /\ inflight' = Append(inflight, LoadRequest("check"))
             /\ lastOp' = [op EXCEPT !.outcome = "requested", !.clientCalls = 1,
                                     !.requests = 1]
             /\ UNCHANGED bhVars

\* the 30 s 'manualOverrideCheck' timer, visibilitychange, online,
\* loadInitialData, or a direct call
CheckManualOverride(forceRefresh, fault) ==
    /\ phase = "ready"
    /\ checkManualOverride(forceRefresh, fault, "checkManualOverride")
    /\ UNCHANGED << extVars, now, ticks, phase, windowApp, bgRefresh, cache, cms >>

\* refreshInBackground: the 100 ms timer set by init fires
RefreshInBackground(fault) ==
    /\ bgRefresh = "scheduled"
    /\ bgRefresh' = "done"
    /\ checkManualOverride(TRUE, fault, "refreshInBackground")
    /\ UNCHANGED << extVars, now, ticks, phase, windowApp, cache, cms >>

RemoveAt(s, i) == SubSeq(s, 1, i - 1) \o SubSeq(s, i + 1, Len(s))

\* the answer to an outstanding loadBusinessStatus request arrives
LoadComplete(i, outcome, fault) ==
    /\ i \in 1..Len(inflight)
    /\ inflight[i].op = "load"
    /\ inflight' = RemoveAt(inflight, i)
    /\ cache' = CacheAfterLoad(cache, outcome, cms, now)
    /\ ApplyRefresh(LoadedData(outcome, cms), TRUE, fault,
           [NoOp EXCEPT !.name = "loadComplete", !.outcome = outcome,
                        !.origin = inflight[i].from])
    /\ UNCHANGED << extVars, now, ticks, phase, windowApp, bgRefresh, cms >>

\* ------------------------------------------------------------------------
\* BusinessHours.setManualOverride and MicroCMSClient.setBusinessStatus
\* ------------------------------------------------------------------------
\* overrideData built by the admin panel: {status, reason, message, endTime}
SetSamples == { [status |-> "closed", reason |-> "water-outage", message |-> "",
                 endTime |-> <<>>] }

\* the id the Content Service gives to a created record
NewId == "n"

\* statusData.priority || 10, then parseInt(priority) || 1 in handlePost
NewPriority(data) == 10

\* the record created by the POST at instant t: startTime defaults to the
\* current time, the record is published at once
NewRecord(data, t) ==
    [Rec(NewId, Scalar(data.status), <<NewPriority(data)>>, <<t>>, data.endTime, <<t>>, t)
        EXCEPT !.reason = data.reason, !.message = data.message]

HasRecord(records, recordId) == \E k \in 1..Len(records) : records[k].id = recordId

\* what the POST can end in
SetOutcomes == {"ok", "http-error", "network"}

\* setManualOverride(overrideData) up to the await of setBusinessStatus
SetManualOverride(data) ==
    /\ phase = "ready"
    /\ ~HasRecord(cms, NewId)
    /\ \A k \in 1..Len(inflight) : inflight[k].op # "set"
    /\ IF ~windowApp
       THEN /\ lastOp' = [NoOp EXCEPT !.name = "setManualOverride",
                                      !.outcome = "no-client", !.rejected = TRUE]
            /\ UNCHANGED inflight
       ELSE /\ Len(inflight) < MaxInflight
            /\ inflight' = Append(inflight, [op |-> "set", from |-> "set", data |-> <<data>>])
            /\ lastOp' = [NoOp EXCEPT !.name = "setManualOverride",
                                      !.outcome = "requested", !.clientCalls = 1,
                                      !.requests = 1]
    /\ UNCHANGED << extVars, now, ticks, phase, windowApp, bgRefresh, cache, cms >>
    /\ UNCHANGED bhVars

\* the answer to the POST arrives: setBusinessStatus throws, or it drops the
\* client cache entry and setManualOverride goes on with checkManualOverride()
SetComplete(i, outcome) ==
    /\ i \in 1..Len(inflight)
    /\ inflight[i].op = "set"
    /\ LET op == [NoOp EXCEPT !.name = "setComplete", !.origin = "set"]
       IN  IF outcome # "ok"
           THEN /\ inflight' = RemoveAt(inflight, i)
                /\ lastOp' = [op EXCEPT !.outcome = outcome, !.rejected = TRUE]
                /\ UNCHANGED << cache, cms >>
           ELSE /\ cms' = Append(cms, NewRecord(inflight[i].data[1], now))
                /\ cache' = <<>>
                /\ IF RefreshSkipped(FALSE, lastCMSCheck, now)
                   THEN /\ inflight' = RemoveAt(inflight, i)
                        /\ lastOp' = [op EXCEPT !.outcome = "skipped"]
                   ELSE /\ inflight' = Append(RemoveAt(inflight, i), LoadRequest("set"))
                        /\ lastOp' = [op EXCEPT !.outcome = "requested",
                                                !.clientCalls = 1, !.requests = 1]
    /\ UNCHANGED << extVars, now, ticks, phase, windowApp, bgRefresh >>
    /\ UNCHANGED bhVars

\* ------------------------------------------------------------------------
\* BusinessHours.clearManualOverride
\* ------------------------------------------------------------------------
ClearManualOverride ==
    /\ phase = "ready"
    /\ manualOverride' = <<>>
    /\ overrideAssigned' = TRUE
    /\ overrideFromCache' = FALSE
    /\ updateStatus(<<>>, <<>>, [NoOp EXCEPT !.name = "clearManualOverride",
                                             !.cleared = manualOverride])
    /\ UNCHANGED << extVars, now, ticks, phase, windowApp, bgRefresh, lastCMSCheck, localStorage,
                    cache, cms, inflight >>

\* ------------------------------------------------------------------------
\* Environment
\* ------------------------------------------------------------------------
\* time passes
Advance ==
    /\ ticks < MaxTicks
    /\ ticks' = ticks + 1
    /\ now' = StartTime + Offset(ticks + 1)
    /\ lastOp' = [NoOp EXCEPT !.name = "advance"]
    /\ UNCHANGED << extVars, phase, windowApp, bgRefresh, cache, cms, inflight >>
    /\ UNCHANGED bhVars

\* records are created, edited or deleted at the Content Service
CmsEdit(records) ==
    /\ records # cms
    /\ cms' = records
    /\ lastOp' = [NoOp EXCEPT !.name = "cmsEdit"]
    /\ UNCHANGED << extVars, now, ticks, phase, windowApp, bgRefresh, cache, inflight >>
    /\ UNCHANGED bhVars

\* ------------------------------------------------------------------------
\* Specification of the status engine
\* ------------------------------------------------------------------------
Init ==
    /\ now = StartTime
    /\ ticks = 0
    /\ phase = "new"
    /\ windowApp = FALSE
    /\ bgRefresh = "none"
    /\ manualOverride = <<>>
    /\ overrideAssigned = FALSE
    /\ overrideFromCache = FALSE
    /\ statusCache = <<>>
    /\ lastCMSCheck = <<>>
    /\ localStorage \in StoredSamples(StartTime)
    /\ cache = <<>>
    /\ cms \in CmsSamples(StartTime)
    /\ inflight = <<>>
    /\ displayed = <<>>
    /\ lastOp = NoOp
    /\ ExtIdle

Next ==
    \/ \E snap \in Snapshots(now), fault \in StorageFaults : BHInit(snap, fault)
    \/ PublishApp
    \/ \E customDate \in {<<>>} \cup {<<d>> : d \in CustomDates} : UpdateStatus(customDate)
    \/ \E forceRefresh \in BOOLEAN, fault \in StorageFaults :
          CheckManualOverride(forceRefresh, fault)
    \/ \E fault \in StorageFaults : RefreshInBackground(fault)
    \/ \E i \in 1..MaxInflight, outcome \in Outcomes, fault \in StorageFaults :
          LoadComplete(i, outcome, fault)
    \/ ClearManualOverride
    \/ Advance
    \/ \E records \in CmsSamples(StartTime) : CmsEdit(records)

Spec == Init /\ [][Next]_vars

\* ------------------------------------------------------------------------
\* Specification of an administrator's session: the page is loaded without
\* a snapshot and with an empty store; the administrator sets and clears
\* overrides from the panel while the timers and events refresh
\* ------------------------------------------------------------------------
InitAdmin ==
    /\ now = StartTime
    /\ ticks = 0
    /\ phase = "new"
    /\ windowApp = FALSE
    /\ bgRefresh = "none"
    /\ manualOverride = <<>>
    /\ overrideAssigned = FALSE
    /\ overrideFromCache = FALSE
    /\ statusCache = <<>>
    /\ lastCMSCheck = <<>>
    /\ localStorage = <<>>
    /\ cache = <<>>
    /\ cms \in { <<>>, <<RecSpecial(StartTime), RecClosed(StartTime)>> }
    /\ inflight = <<>>
    /\ displayed = <<>>
    /\ lastOp = NoOp
    /\ ExtIdle

NextAdmin ==
    \/ BHInit(<<>>, "none")
    \/ PublishApp
    \/ UpdateStatus(<<>>)
    \/ \E forceRefresh \in BOOLEAN, fault \in StorageFaults :
          CheckManualOverride(forceRefresh, fault)
    \/ \E fault \in StorageFaults : RefreshInBackground(fault)
    \/ \E i \in 1..MaxInflight, outcome \in Outcomes, fault \in StorageFaults :
          LoadComplete(i, outcome, fault)
    \/ \E data \in SetSamples : SetManualOverride(data)
    \/ \E i \in 1..MaxInflight, outcome \in SetOutcomes : SetComplete(i, outcome)
    \/ ClearManualOverride
    \/ Advance

SpecAdmin == InitAdmin /\ [][NextAdmin]_vars

\* ------------------------------------------------------------------------
\* Specification of the startup: BusinessHours.init applied to the snapshots
\* and persisted entries a page load can find
\* ------------------------------------------------------------------------
\* a closed record whose endTime is the instant of the page load
RecEndsNow(s) == Rec("f", Scalar("closed"), <<5>>, <<>>, <<s>>, <<s - HourMs>>, s - HourMs)

\* a record as the Content Service stores it, without a priority
RecRaw(s) == Rec("g", Scalar("short"), <<>>, <<>>, <<>>, <<s - HourMs>>, s - HourMs)

\* entries a previous session may have left: none, without endTime, with an
\* endTime ahead, now or passed, and an unparsable string
StartupStored(s) ==
    StoredSamples(s) \cup { <<JSONstringify(RecClosed(s))>>, <<JSONstringify(RecEndsNow(s))>>,
                            <<Garbage>> }

\* snapshots: not served, or of age just under, exactly or just over 5 minutes
StartupSnapshots(t) ==
    { <<>> } \cup
    { <<[contents |-> c, fetchedAt |-> f]>> :
        c \in CmsSamples(StartTime) \cup { <<RecExpired(StartTime)>>,
                                          <<RecRaw(StartTime), RecSpecial(StartTime)>> },
        f \in {t - SnapshotMaxAge + 1, t - SnapshotMaxAge, t - SnapshotMaxAge - 1} }

InitStartup ==
    /\ now = StartTime
    /\ ticks = 0
    /\ phase = "new"
    /\ windowApp = FALSE
    /\ bgRefresh = "none"
    /\ manualOverride = <<>>
    /\ overrideAssigned = FALSE
    /\ overrideFromCache = FALSE
    /\ statusCache = <<>>
    /\ lastCMSCheck = <<>>
    /\ localStorage \in StartupStored(StartTime)
    /\ cache = <<>>
    /\ cms = <<>>
    /\ inflight = <<>>
    /\ displayed = <<>>
    /\ lastOp = NoOp
    /\ ExtIdle

NextStartup ==
    \E snap \in StartupSnapshots(now), fault \in StorageFaults : BHInit(snap, fault)

SpecStartup == InitStartup /\ [][NextStartup]_vars

\* ------------------------------------------------------------------------
\* Specification of the selection algorithm: findActiveOverride applied to
\* candidate lists of up to MaxCands records
\* ------------------------------------------------------------------------
\* eligibility profiles <<publishedAt, startTime, endTime>> at instant t:
\* unbounded, starting and ending at t, not yet started, expired, draft
Profiles(t) == { << <<t - 1>>, <<>>, <<>> >>,
                 << <<t - 1>>, <<t>>, <<t>> >>,
                 << <<t - 1>>, <<t + 1>>, <<>> >>,
                 << <<t - 1>>, <<>>, <<t - 1>> >>,
                 << <<>>, <<>>, <<>> >> }

CandidateIds == <<"a", "b", "c", "d">>

\* the records that can be appended to a list of n candidates
Candidates(n, t) ==
    { Rec(CandidateIds[n + 1], Scalar(kind), priority, pr[2], pr[3], pr[1], updatedAt) :
        kind \in {"closed", "special"},
        priority \in {<<>>, <<1>>, <<5>>},
        pr \in Profiles(t),
        updatedAt \in {t - 2, t - 1} }

AddCandidate(item) ==
    /\ Len(cms) < MaxCands
    /\ cms' = Append(cms, item)
    /\ lastOp' = [NoOp EXCEPT !.name = "addCandidate"]
    /\ UNCHANGED << extVars, now, ticks, phase, windowApp, bgRefresh, cache, inflight >>
    /\ UNCHANGED bhVars

\* findActiveOverride(contents) at the instant now, and the status the
\* selected record resolves to
FindActiveOverride ==
    /\ lastOp' = [NoOp EXCEPT !.name = "findActiveOverride",
                              !.candidates = cms,
                              !.selected = findActiveOverride(cms, now),
                              !.date = <<now>>,
                              !.resolved = <<Resolve(findActiveOverride(cms, now), now)>>]
    /\ UNCHANGED << extVars, now, ticks, phase, windowApp, bgRefresh, cache, cms, inflight >>
    /\ UNCHANGED bhVars

InitSelect ==
    /\ now = StartTime
    /\ ticks = 0
    /\ phase = "new"
    /\ windowApp = FALSE
    /\ bgRefresh = "none"
    /\ manualOverride = <<>>
    /\ overrideAssigned = FALSE
    /\ overrideFromCache = FALSE
    /\ statusCache = <<>>
    /\ lastCMSCheck = <<>>
    /\ localStorage = <<>>
    /\ cache = <<>>
    /\ cms = <<>>
    /\ inflight = <<>>
    /\ displayed = <<>>
    /\ lastOp = NoOp
    /\ ExtIdle

NextSelect ==
    \/ \E item \in Candidates(Len(cms), now) : AddCandidate(item)
    \/ FindActiveOverride

SpecSelect == InitSelect /\ [][NextSelect]_vars

\* ------------------------------------------------------------------------
\* Specification of the schedule: calculateAutoStatus and getNextOpenTime
\* applied to the dates of the window, at the boundaries of the business day
\* ------------------------------------------------------------------------
\* the last day of the window a date is drawn from (day 0 is Sat Dec 27)
ScheduleDays == 16

\* times of day in ms: midnight, the last ms before opening, opening, 19:00,
\* 19:07, the last ms before last order, last order, the last ms before
\* closing, closing, the last minute of the day
ScheduleTimes ==
    { 0,
      AtTime(0, 11, 0) - 1, AtTime(0, 11, 0),
      AtTime(0, 19, 0), AtTime(0, 19, 7),
      AtTime(0, 20, 30) - 1, AtTime(0, 20, 30),
      AtTime(0, 21, 0) - 1, AtTime(0, 21, 0),
      AtTime(0, 23, 59) }

ScheduleDates == { d * DayMs + tod : d \in 0..ScheduleDays, tod \in ScheduleTimes }

\* calculateAutoStatus(new Date(now))
CalculateAutoStatus ==
    /\ lastOp' = [NoOp EXCEPT !.name = "calculateAutoStatus",
                              !.date = <<now>>,
                              !.resolved = <<calculateAutoStatus(now)>>]
    /\ UNCHANGED << extVars, now, ticks, phase, windowApp, bgRefresh, cache, cms, inflight >>
    /\ UNCHANGED bhVars

\* getNextOpenTime(new Date(now)); the Date returned is kept in resolved
GetNextOpenTime ==
    /\ lastOp' = [NoOp EXCEPT !.name = "getNextOpenTime",
                              !.date = <<now>>,
                              !.resolved = <<[nextOpen |-> getNextOpenTime(now)]>>]
    /\ UNCHANGED << extVars, now, ticks, phase, windowApp, bgRefresh, cache, cms, inflight >>
    /\ UNCHANGED bhVars

InitSchedule ==
    /\ now \in ScheduleDates
    /\ ticks = 0
    /\ phase = "new"
    /\ windowApp = FALSE
    /\ bgRefresh = "none"
    /\ manualOverride = <<>>
    /\ overrideAssigned = FALSE
    /\ overrideFromCache = FALSE
    /\ statusCache = <<>>
    /\ lastCMSCheck = <<>>
    /\ localStorage = <<>>
    /\ cache = <<>>
    /\ cms = <<>>
    /\ inflight = <<>>
    /\ displayed = <<>>
    /\ lastOp = NoOp
    /\ ExtIdle

NextSchedule ==
    \/ CalculateAutoStatus
    \/ GetNextOpenTime

SpecSchedule == InitSchedule /\ [][NextSchedule]_vars

\* ------------------------------------------------------------------------
\* Specification of the client: MicroCMSClient.loadBusinessStatus called
\* with and without forceRefresh around the 30 s lifetime of its cache entry
\* ------------------------------------------------------------------------
MaxClientTicks == 3

\* the clock visits the instants 1 ms before, at, and every ms after the
\* lifetime of an entry cached at the start
ClientOffset(k) ==
    CASE k = 0 -> 0
      [] k = 1 -> BusinessStatusTTL - 1
      [] OTHER -> BusinessStatusTTL + (k - 2)

\* loadBusinessStatus(forceRefresh) up to its return from the cache or to
\* the await of fetchWithRetry
LoadBusinessStatus(forceRefresh) ==
    /\ LET hit == CachedData(cache, forceRefresh, now)
           op  == [NoOp EXCEPT !.name = "loadBusinessStatus", !.force = forceRefresh,
                               !.clientCalls = 1]
       IN  IF hit # <<>>
           THEN /\ lastOp' = [op EXCEPT !.outcome = "cached", !.candidates = hit[1]]
                /\ UNCHANGED inflight
           ELSE /\ Len(inflight) < MaxInflight
                /\ inflight' = Append(inflight, LoadRequest("client"))
                /\ lastOp' = [op EXCEPT !.outcome = "requested", !.requests = 1]
    /\ UNCHANGED << extVars, now, ticks, phase, windowApp, bgRefresh, cache, cms >>
    /\ UNCHANGED bhVars

\* the request of loadBusinessStatus ends in outcome: the array it resolves
\* to is kept in candidates
LoadBusinessStatusDone(i, outcome) ==
    /\ i \in 1..Len(inflight)
    /\ inflight[i].op = "load"
    /\ inflight' = RemoveAt(inflight, i)
    /\ cache' = CacheAfterLoad(cache, outcome, cms, now)
    /\ lastOp' = [NoOp EXCEPT !.name = "loadBusinessStatusDone", !.outcome = outcome,
                              !.origin = inflight[i].from,
                              !.candidates = LoadedData(outcome, cms)]
    /\ UNCHANGED << extVars, now, ticks, phase, windowApp, bgRefresh, cms >>
    /\ UNCHANGED bhVars

\* clearExpiredCache (constructor, and the 5 min 'cacheCleanup' timer): an
\* entry older than 30 s is deleted
ClearExpiredCache ==
    /\ cache' = IF cache # <<>> /\ now - cache[1].timestamp > BusinessStatusTTL
                THEN <<>> ELSE cache
    /\ lastOp' = [NoOp EXCEPT !.name = "clearExpiredCache"]
    /\ UNCHANGED << extVars, now, ticks, phase, windowApp, bgRefresh, cms, inflight >>
    /\ UNCHANGED bhVars

ClientAdvance ==
    /\ ticks < MaxClientTicks
    /\ ticks' = ticks + 1
    /\ now' = StartTime + ClientOffset(ticks + 1)
    /\ lastOp' = [NoOp EXCEPT !.name = "advance"]
    /\ UNCHANGED << extVars, phase, windowApp, bgRefresh, cache, cms, inflight >>
    /\ UNCHANGED bhVars

InitClient ==
    /\ now = StartTime
    /\ ticks = 0
    /\ phase = "new"
    /\ windowApp = FALSE
    /\ bgRefresh = "none"
    /\ manualOverride = <<>>
    /\ overrideAssigned = FALSE
    /\ overrideFromCache = FALSE
    /\ statusCache = <<>>
    /\ lastCMSCheck = <<>>
    /\ localStorage = <<>>
    /\ cache = <<>>
    /\ cms \in CmsSamples(StartTime)
    /\ inflight = <<>>
    /\ displayed = <<>>
    /\ lastOp = NoOp
    /\ ExtIdle

NextClient ==
    \/ \E forceRefresh \in BOOLEAN : LoadBusinessStatus(forceRefresh)
    \/ \E i \in 1..MaxInflight, outcome \in Outcomes : LoadBusinessStatusDone(i, outcome)
    \/ ClearExpiredCache
    \/ ClientAdvance
    \/ \E records \in CmsSamples(StartTime) : CmsEdit(records)

SpecClient == InitClient /\ [][NextClient]_vars

\* ------------------------------------------------------------------------
\* Specification of the resolution of one override: createManualStatus
\* applied to records whose status is a scalar or an array
\* ------------------------------------------------------------------------
\* the longest status array
MaxStatusLen == 2

\* the kinds a status can name; "holiday" has no case in the switch
StatusKinds == {"closed", "short", "special", "holiday"}

RECURSIVE KindSeqs(_)
\* the arrays of exactly n kinds
KindSeqs(n) ==
    IF n = 0 THEN { <<>> }
    ELSE { Append(q, k) : q \in KindSeqs(n - 1), k \in StatusKinds }

\* status fields as the proxy passes them on: a string, or an array of 0 to
\* MaxStatusLen strings (sanitizeString leaves arrays as they are)
StatusShapes ==
    { Scalar(k) : k \in StatusKinds } \cup
    UNION { { Array(q) : q \in KindSeqs(n) } : n \in 0..MaxStatusLen }

\* published records without time window carrying each shape and text
ShapedRecords ==
    { [Rec("s", shape, <<5>>, <<>>, <<>>, <<StartTime - HourMs>>, StartTime - HourMs)
          EXCEPT !.reason = reason, !.message = message] :
        shape \in StatusShapes, reason \in {"", "typhoon"}, message \in {"", "festival"} }

\* createManualStatus(this.manualOverride, new Date(now))
CreateManualStatus ==
    /\ manualOverride # <<>>
    /\ lastOp' = [NoOp EXCEPT !.name = "createManualStatus",
                              !.selected = manualOverride,
                              !.date = <<now>>,
                              !.resolved = <<createManualStatus(manualOverride[1], now)>>]
    /\ UNCHANGED << extVars, now, ticks, phase, windowApp, bgRefresh, cache, cms, inflight >>
    /\ UNCHANGED bhVars

InitResolve ==
    /\ now \in {StartTime} \cup CustomDates
    /\ ticks = 0
    /\ phase = "new"
    /\ windowApp = FALSE
    /\ bgRefresh = "none"
    /\ manualOverride \in { <<r>> : r \in ShapedRecords }
    /\ overrideAssigned = TRUE
    /\ overrideFromCache = FALSE
    /\ statusCache = <<>>
    /\ lastCMSCheck = <<>>
    /\ localStorage = <<>>
    /\ cache = <<>>
    /\ cms = <<>>
    /\ inflight = <<>>
    /\ displayed = <<>>
    /\ lastOp = NoOp
    /\ ExtIdle

NextResolve == CreateManualStatus

SpecResolve == InitResolve /\ [][NextResolve]_vars

\* ------------------------------------------------------------------------
\* TimerManager (src/assets/js/timer-manager.js)
\*   timers[name]   = <<[timer |-> handle, callback |-> kind, paused |-> BOOLEAN]>>
\*   timeouts[name] = <<[timeout |-> handle, callback |-> kind]>>
\*   liveTimers     = the records [handle, kind, name, callback] of the
\*                    intervals and timeouts not yet cleared (or, for a
\*                    timeout, fired)
\* The operators below take and return the record
\*   [timers, timeouts, live, handles]
\* so that a callback that calls back into the manager runs in the middle
\* of the operation that called it, as in the single-threaded program.
\* ------------------------------------------------------------------------
\* the handles setInterval / setTimeout may return in one run
MaxHandles == 3

\* what a registered callback does: nothing to the manager, throw, or
\* register itself again under its own name
Callbacks == {"plain", "throws", "reregister"}

TMState == [timers |-> timers, timeouts |-> timeouts, live |-> liveTimers,
            handles |-> handles]

\* clearInterval(handle) / clearTimeout(handle)
clearTimer(st, handle) == [st EXCEPT !.live = { l \in @ : l.handle # handle }]

\* setInterval / setTimeout: a new handle, live from now on
setTimer(st, kind, name, callback) ==
    [st EXCEPT !.handles = @ + 1,
               !.live = @ \cup { [handle |-> st.handles + 1, kind |-> kind,
                                  name |-> name, callback |-> callback] }]

\* remove(name)
remove(st, name) ==
    IF st.timers[name] # <<>>
    THEN [clearTimer(st, st.timers[name][1].timer) EXCEPT !.timers[name] = <<>>]
    ELSE st

\* removeTimeout(name)
removeTimeout(st, name) ==
    IF st.timeouts[name] # <<>>
    THEN [clearTimer(st, st.timeouts[name][1].timeout) EXCEPT !.timeouts[name] = <<>>]
    ELSE st

\* add(name, callback, interval, false)
addLater(st, name, callback) ==
    LET s1 == remove(st, name)
        s2 == setTimer(s1, "interval", name, callback)
    IN  [s2 EXCEPT !.timers[name] =
                      <<[timer |-> s2.handles, callback |-> callback, paused |-> FALSE]>>]

\* callback() of an interval run by add(..., immediate = true): an exception
\* is logged; a callback that registers itself calls add(name, ..., false)
runImmediate(st, name, callback) ==
    IF callback = "reregister" THEN addLater(st, name, callback) ELSE st

\* add(name, callback, interval, immediate)
add(st, name, callback, immediate) ==
    LET s1 == remove(st, name)
        s2 == IF immediate THEN runImmediate(s1, name, callback) ELSE s1
        s3 == setTimer(s2, "interval", name, callback)
    IN  [s3 EXCEPT !.timers[name] =
                      <<[timer |-> s3.handles, callback |-> callback, paused |-> FALSE]>>]

\* addTimeout(name, callback, delay)
addTimeout(st, name, callback) ==
    LET s1 == removeTimeout(st, name)
        s2 == setTimer(s1, "timeout", name, callback)
    IN  [s2 EXCEPT !.timeouts[name] = <<[timeout |-> s2.handles, callback |-> callback]>>]

\* cleanup()
cleanup(st) ==
    LET tracked == { st.timers[n][1].timer : n \in { m \in TimerNames : st.timers[m] # <<>> } }
                   \cup
                   { st.timeouts[n][1].timeout : n \in { m \in TimerNames : st.timeouts[m] # <<>> } }
    IN  [st EXCEPT !.live = { l \in @ : l.handle \notin tracked },
                   !.timers = [n \in TimerNames |-> <<>>],
                   !.timeouts = [n \in TimerNames |-> <<>>]]

\* pause(name)
pause(st, name) ==
    IF st.timers[name] # <<>> /\ ~st.timers[name][1].paused
    THEN [clearTimer(st, st.timers[name][1].timer) EXCEPT !.timers[name][1].paused = TRUE]
    ELSE st

\* resume(name)
resume(st, name) ==
    IF st.timers[name] # <<>> /\ st.timers[name][1].paused
    THEN LET s1 == setTimer(st, "interval", name, st.timers[name][1].callback)
         IN  [s1 EXCEPT !.timers[name][1].timer = s1.handles,
                        !.timers[name][1].paused = FALSE]
    ELSE st

\* the function given to setInterval runs: callback(); catch: remove(name)
intervalFires(st, l) ==
    CASE l.callback = "throws"     -> remove(st, l.name)
      [] l.callback = "reregister" -> addLater(st, l.name, l.callback)
      [] OTHER                     -> st

\* the function given to setTimeout runs: callback(); finally:
\* this.timeouts.delete(name)
timeoutFires(st, l) ==
    LET s1 == [st EXCEPT !.live = @ \ {l}]
        s2 == IF l.callback = "reregister" THEN addTimeout(s1, l.name, l.callback) ELSE s1
    IN  [s2 EXCEPT !.timeouts[l.name] = <<>>]

\* the step name of the manager leaves it in state st
TimerStep(name, st) ==
    /\ st.handles <= MaxHandles
    /\ timers' = st.timers
    /\ timeouts' = st.timeouts
    /\ liveTimers' = st.live
    /\ handles' = st.handles
    /\ lastOp' = [NoOp EXCEPT !.name = name]
    /\ UNCHANGED << newsVars, now, ticks, phase, windowApp, bgRefresh, cache, cms, inflight >>
    /\ UNCHANGED bhVars

\* typeof name === 'string' && typeof callback === 'function'
ValidTimer(name, callback) == name \in TimerNames /\ callback \in Callbacks

Add(name, callback, immediate) ==
    /\ ValidTimer(name, callback)
    /\ TimerStep("add", add(TMState, name, callback, immediate))

AddTimeout(name, callback) ==
    /\ ValidTimer(name, callback)
    /\ TimerStep("addTimeout", addTimeout(TMState, name, callback))

Remove(name) ==
    /\ name \in TimerNames
    /\ TimerStep("remove", remove(TMState, name))

RemoveTimeout(name) ==
    /\ name \in TimerNames
    /\ TimerStep("removeTimeout", removeTimeout(TMState, name))

Cleanup ==
    /\ handles <= MaxHandles
    /\ TimerStep("cleanup", cleanup(TMState))

Pause(name) ==
    /\ name \in TimerNames
    /\ TimerStep("pause", pause(TMState, name))

Resume(name) ==
    /\ name \in TimerNames
    /\ TimerStep("resume", resume(TMState, name))

IntervalFires(l) ==
    /\ l \in liveTimers
    /\ l.kind = "interval"
    /\ TimerStep("intervalFires", intervalFires(TMState, l))

TimeoutFires(l) ==
    /\ l \in liveTimers
    /\ l.kind = "timeout"
    /\ TimerStep("timeoutFires", timeoutFires(TMState, l))

InitTimers ==
    /\ now = StartTime
    /\ ticks = 0
    /\ phase = "new"
    /\ windowApp = FALSE
    /\ bgRefresh = "none"
    /\ manualOverride = <<>>
    /\ overrideAssigned = FALSE
    /\ overrideFromCache = FALSE
    /\ statusCache = <<>>
    /\ lastCMSCheck = <<>>
    /\ localStorage = <<>>
    /\ cache = <<>>
    /\ cms = <<>>
    /\ inflight = <<>>
    /\ displayed = <<>>
    /\ lastOp = NoOp
    /\ ExtIdle

NextTimers ==
    \/ \E name \in TimerNames, callback \in Callbacks, immediate \in BOOLEAN :
          Add(name, callback, immediate)
    \/ \E name \in TimerNames, callback \in Callbacks : AddTimeout(name, callback)
    \/ \E name \in TimerNames : Remove(name)
    \/ \E name \in TimerNames : RemoveTimeout(name)
    \/ Cleanup
    \/ \E name \in TimerNames : Pause(name)
    \/ \E name \in TimerNames : Resume(name)
    \/ \E l \in liveTimers : IntervalFires(l)
    \/ \E l \in liveTimers : TimeoutFires(l)

SpecTimers == InitTimers /\ [][NextTimers]_vars

\* ------------------------------------------------------------------------
\* MicroCMSClient.loadNews: overlapping calls share this.abortController
\*   newsCalls = the records [id, state]: "fetching" while the request of
\*   the call is outstanding, "aborted" once its controller was aborted and
\*   until the AbortError reaches the call, "done" when the call returned
\* ------------------------------------------------------------------------
\* the loadNews calls of one run
MaxNewsCalls == 4

\* what the request of a call that was not aborted ends in
NewsOutcomes == {"ok", "error"}

\* this.abortController.abort(): the request of the call that owns the
\* controller, if still outstanding, is cancelled
abortCall(calls, controller) ==
    IF controller = <<>> THEN calls
    ELSE { IF c.id = controller[1] /\ c.state = "fetching"
           THEN [c EXCEPT !.state = "aborted"] ELSE c : c \in calls }

\* loadNews(showLoading, forceRefresh) up to its return from the cache (the
\* finally block runs at once) or to the await of fetchWithRetry
LoadNews(forceRefresh) ==
    /\ Cardinality(newsCalls) < MaxNewsCalls
    /\ LET id  == Cardinality(newsCalls) + 1
           hit == ~forceRefresh /\ newsCached
       IN  /\ newsCalls' = abortCall(newsCalls, abortController)
                              \cup { [id |-> id, state |-> IF hit THEN "done" ELSE "fetching"] }
           /\ abortController' = IF hit THEN <<>> ELSE <<id>>
           /\ lastOp' = [NoOp EXCEPT !.name = "loadNews", !.force = forceRefresh,
                                     !.outcome = IF hit THEN "cached" ELSE "requested",
                                     !.requests = IF hit THEN 0 ELSE 1]
    /\ UNCHANGED << newsCached, tmVars, now, ticks, phase, windowApp, bgRefresh,
                    cache, cms, inflight >>
    /\ UNCHANGED bhVars

\* the await of fetchWithRetry in call c ends: with an AbortError if the
\* call was aborted, else in outcome; catch, then finally:
\* this.abortController = null
LoadNewsSettles(c, outcome) ==
    /\ c \in newsCalls
    /\ c.state \in {"fetching", "aborted"}
    /\ newsCalls' = (newsCalls \ {c}) \cup { [c EXCEPT !.state = "done"] }
    /\ abortController' = <<>>
    /\ newsCached' = IF c.state = "fetching" /\ outcome = "ok" THEN TRUE ELSE newsCached
    /\ lastOp' = [NoOp EXCEPT !.name = "loadNewsSettles",
                              !.outcome = IF c.state = "aborted" THEN "aborted" ELSE outcome]
    /\ UNCHANGED << tmVars, now, ticks, phase, windowApp, bgRefresh, cache, cms, inflight >>
    /\ UNCHANGED bhVars

InitNews ==
    /\ now = StartTime
    /\ ticks = 0
    /\ phase = "new"
    /\ windowApp = FALSE
    /\ bgRefresh = "none"
    /\ manualOverride = <<>>
    /\ overrideAssigned = FALSE
    /\ overrideFromCache = FALSE
    /\ statusCache = <<>>
    /\ lastCMSCheck = <<>>
    /\ localStorage = <<>>
    /\ cache = <<>>
    /\ cms = <<>>
    /\ inflight = <<>>
    /\ displayed = <<>>
    /\ lastOp = NoOp
    /\ ExtIdle

NextNews ==
    \/ \E forceRefresh \in BOOLEAN : LoadNews(forceRefresh)
    \/ \E c \in newsCalls, outcome \in NewsOutcomes : LoadNewsSettles(c, outcome)

SpecNews == InitNews /\ [][NextNews]_vars

\* ------------------------------------------------------------------------
\* MicroCMSClient.fetchWithRetry
\* ------------------------------------------------------------------------
\* this.maxRetries of the constructor
maxRetries == 3

\* what one call of fetch ends in: a Response (ok or not), or an exception
FetchResponse(status) == [kind |-> "response", status |-> status, name |-> ""]
FetchError(name) == [kind |-> "error", status |-> 0, name |-> name]

FetchOutcomes ==
    { FetchResponse(200), FetchResponse(500),
      FetchError("TypeError"), FetchError("TimeoutError"), FetchError("AbortError") }

\* a retry condition that does not look at the name of the error
ShouldRetry_AfterAbort(i, error) == i < maxRetries

\* i < this.maxRetries && error.name !== 'AbortError'
ShouldRetry(i, error) == i < maxRetries /\ error.name # "AbortError"

\* Math.pow(2, i) * 1000
BackoffDelay(i) == (2 ^ i) * 1000

RECURSIVE FetchAttempt(_, _, _)
\* the body of the for loop at index i: outcomes[i] is what fetch does if it
\* is called for the (i+1)-th time, delays are the waits so far
FetchAttempt(outcomes, i, delays) ==
    IF outcomes[i].kind = "response"
    THEN [result |-> "returned", value |-> outcomes[i], attempts |-> i + 1,
          delays |-> delays]
    ELSE IF ShouldRetry(i, outcomes[i])
    THEN FetchAttempt(outcomes, i + 1, Append(delays, BackoffDelay(i)))
    ELSE [result |-> "thrown", value |-> outcomes[i], attempts |-> i + 1,
          delays |-> delays]

fetchWithRetry(outcomes) == FetchAttempt(outcomes, 0, <<>>)

\* fetchWithRetry(url, options) against a network that answers the attempts
\* as outcomes says
FetchWithRetry(outcomes) ==
    /\ outcomes \in [0..maxRetries -> FetchOutcomes]
    /\ lastOp' = [name |-> "fetchWithRetry", outcomes |-> outcomes,
                  result |-> fetchWithRetry(outcomes)]
    /\ UNCHANGED << extVars, now, ticks, phase, windowApp, bgRefresh, cache, cms, inflight >>
    /\ UNCHANGED bhVars

InitRetry ==
    /\ now = StartTime
    /\ ticks = 0
    /\ phase = "new"
    /\ windowApp = FALSE
    /\ bgRefresh = "none"
    /\ manualOverride = <<>>
    /\ overrideAssigned = FALSE
    /\ overrideFromCache = FALSE
    /\ statusCache = <<>>
    /\ lastCMSCheck = <<>>
    /\ localStorage = <<>>
    /\ cache = <<>>
    /\ cms = <<>>
    /\ inflight = <<>>
    /\ displayed = <<>>
    /\ lastOp = NoOp
    /\ ExtIdle

NextRetry == \E outcomes \in [0..maxRetries -> FetchOutcomes] : FetchWithRetry(outcomes)

SpecRetry == InitRetry /\ [][NextRetry]_vars

\* ------------------------------------------------------------------------
\* The business-status proxy: handler, authenticate, timingSafeEqual
\* ------------------------------------------------------------------------
\* A header value or a token is a sequence of lexical atoms: a scheme word, a
\* whitespace character, or a token word.  The empty sequence is "".
\* the secret of the deployment
Secret == <<"s3cret">>

\* values of the Authorization header that requests are sent with
HeaderValues ==
    { <<>>, <<"Bearer">>, <<"Bearer", " ">>,
      <<"Bearer", " ", "s3cret">>, <<"bearer", " ", "s3cret">>,
      <<"Bearer", " ", " ", "s3cret">>, <<"Bearer", " ", "wrong">>,
      <<"Bearer", " ", "s3cret", "wrong">>, <<"Bearer", "s3cret">>,
      <<"Basic", " ", "s3cret">>, <<"s3cret">>, <<"wrong">> }

\* req.method
Methods == {"GET", "POST", "PATCH", "DELETE", "OPTIONS", "PUT"}

\* req.headers.authorization: <<>> when the header is not sent
AuthorizationHeaders == { <<>> } \cup { <<h>> : h \in HeaderValues }

\* process.env.ADMIN_TOKEN: unset, empty, or a secret
AdminTokens == { <<>>, << <<>> >>, <<Secret>> }

\* process.env: whether the key and the domain of the Content Service are
\* both set, and ADMIN_TOKEN
Environments == [configured : BOOLEAN, ADMIN_TOKEN : AdminTokens]

\* valid: the query and the body pass the checks of handleGet / handlePost /
\* handlePatch / handleDelete
ProxyRequests == [method : Methods, authorization : AuthorizationHeaders, valid : BOOLEAN]

\* response.status of the Content Service
ServiceStatuses == {200, 404, 500}

RECURSIVE DropWhitespace(_)
DropWhitespace(h) ==
    IF h # <<>> /\ Head(h) = " " THEN DropWhitespace(Tail(h)) ELSE h

\* authHeader.replace(/^Bearer\s+/i, '')
StripBearer(h) ==
    IF Len(h) >= 2 /\ h[1] \in {"Bearer", "bearer"} /\ h[2] = " "
    THEN DropWhitespace(Tail(h))
    ELSE h

timingSafeEqual(a, b) ==
    IF Len(a) # Len(b) THEN FALSE ELSE a = b

authenticate(req, env) ==
    IF req.authorization = <<>> \/ req.authorization[1] = <<>>
    THEN [authorized |-> FALSE, message |-> "header required"]
    ELSE LET token == StripBearer(req.authorization[1])
         IN  IF token = <<>>
             THEN [authorized |-> FALSE, message |-> "token required"]
             ELSE IF env.ADMIN_TOKEN = <<>> \/ env.ADMIN_TOKEN[1] = <<>>
             THEN [authorized |-> FALSE, message |-> "admin token not set"]
             ELSE IF ~timingSafeEqual(token, env.ADMIN_TOKEN[1])
             THEN [authorized |-> FALSE, message |-> "authentication failed"]
             ELSE [authorized |-> TRUE, message |-> ""]

ProxyResponse(status, authChecked, forwarded) ==
    [status |-> status, authChecked |-> authChecked, forwarded |-> forwarded]

\* handleGet, handlePost, handlePatch, handleDelete and the default branch;
\* an error thrown for a failed call is answered by handleError with 500
Dispatch(req, service, authChecked) ==
    IF req.method \notin {"GET", "POST", "PATCH", "DELETE"}
    THEN ProxyResponse(405, authChecked, FALSE)
    ELSE IF ~req.valid
    THEN ProxyResponse(400, authChecked, FALSE)
    ELSE IF service = 200
    THEN ProxyResponse(IF req.method = "POST" THEN 201 ELSE 200, authChecked, TRUE)
    ELSE IF service = 404 /\ req.method = "GET"
    THEN ProxyResponse(200, authChecked, TRUE)
    ELSE IF service = 404 /\ req.method \in {"PATCH", "DELETE"}
    THEN ProxyResponse(404, authChecked, TRUE)
    ELSE ProxyResponse(500, authChecked, TRUE)

handler(req, env, service) ==
    IF req.method = "OPTIONS"
    THEN ProxyResponse(200, FALSE, FALSE)
    ELSE IF ~env.configured
    THEN ProxyResponse(500, FALSE, FALSE)
    ELSE IF req.method \in {"POST", "PATCH", "DELETE"}
    THEN IF ~authenticate(req, env).authorized
         THEN ProxyResponse(401, TRUE, FALSE)
         ELSE Dispatch(req, service, TRUE)
    ELSE Dispatch(req, service, FALSE)

\* one request handled by the proxy
Handler(req, env, service) ==
    /\ req \in ProxyRequests
    /\ lastOp' = [name |-> "handler", request |-> req, env |-> env,
                  service |-> service, response |-> handler(req, env, service)]
    /\ UNCHANGED << extVars, now, ticks, phase, windowApp, bgRefresh, cache, cms, inflight >>
    /\ UNCHANGED bhVars

InitProxy ==
    /\ now = StartTime
    /\ ticks = 0
    /\ phase = "new"
    /\ windowApp = FALSE
    /\ bgRefresh = "none"
    /\ manualOverride = <<>>
    /\ overrideAssigned = FALSE
    /\ overrideFromCache = FALSE
    /\ statusCache = <<>>
    /\ lastCMSCheck = <<>>
    /\ localStorage = <<>>
    /\ cache = <<>>
    /\ cms = <<>>
    /\ inflight = <<>>
    /\ displayed = <<>>
    /\ lastOp = NoOp
    /\ ExtIdle

NextProxy ==
    \E req \in ProxyRequests, env \in Environments, service \in ServiceStatuses :
        Handler(req, env, service)

SpecProxy == InitProxy /\ [][NextProxy]_vars

\* ------------------------------------------------------------------------
\* Properties
\* ------------------------------------------------------------------------
ThirtySeconds == 30 * SecondMs

\* the kind of the override held, as the resolver reads it
HeldKind == IF manualOverride[1].status.v = <<>> THEN "undefined"
            ELSE manualOverride[1].status.v[1]

\* the step just taken ran updateStatus
Resolved == lastOp.resolved # <<>>

\* C1: whenever updateStatus runs while an override of a recognised kind is
\* held, the status it resolves to is manual and its type is fixed by the
\* kind alone (closed -> emergency-closed, short -> short-hours, special ->
\* special), whatever the date; a status of the automatic schedule is
\* resolved only when no override of a recognised kind is held, and with no
\* override held it is the automatic status of that date.
C1_OverrideWins ==
    Resolved =>
        /\ (manualOverride # <<>> /\ HeldKind \in {"closed", "short", "special"}) =>
              /\ lastOp.resolved[1].isManual
              /\ lastOp.resolved[1].type =
                    (CASE HeldKind = "closed"  -> "emergency-closed"
                       [] HeldKind = "short"   -> "short-hours"
                       [] HeldKind = "special" -> "special")
        /\ manualOverride = <<>> =>
              /\ ~lastOp.resolved[1].isManual
              /\ lastOp.resolved[1] = calculateAutoStatus(lastOp.date[1])

\* C1 witness: a manual status resolved for a date in the holiday range
C1_Witness ==
    /\ Resolved
    /\ manualOverride # <<>>
    /\ isHoliday(lastOp.date[1])
    /\ lastOp.resolved[1].isManual
    /\ lastOp.resolved[1].type = "short-hours"

\* C2: whenever updateStatus runs while the held override has an
\* unrecognised kind, the resolved status is exactly the automatic status of
\* that date, with isManual = FALSE, and the step does not fail.
C2_UnknownKindFallsBack ==
    (Resolved /\ manualOverride # <<>> /\ HeldKind \notin {"closed", "short", "special"}) =>
        /\ lastOp.resolved[1] = calculateAutoStatus(lastOp.date[1])
        /\ ~lastOp.resolved[1].isManual
        /\ ~lastOp.rejected

\* C2 witness: an override of unknown kind is held and the closed weekday's
\* automatic status was resolved
C2_Witness ==
    /\ Resolved
    /\ manualOverride # <<>>
    /\ HeldKind = "holiday"
    /\ lastOp.resolved[1].message = "regular-closing-day"

\* the new status differs from the status pushed before, or there is none
DiffersFromPushed(new) ==
    \/ statusCache = <<>>
    \/ statusCache[1].type # new.type
    \/ statusCache[1].message # new.message
    \/ statusCache[1].isManual # new.isManual

\* C3: a step that runs updateStatus calls the display exactly when no status
\* was pushed before or the new status differs from the pushed one in type,
\* message or isManual, and then the display shows the new status; a second
\* updateStatus for the same date and the same override directly after
\* another one is never displayed.
C3_PushIffChanged ==
    [][ lastOp'.resolved # <<>> =>
          /\ (lastOp'.displayCalls = 1) <=> DiffersFromPushed(lastOp'.resolved[1])
          /\ lastOp'.displayCalls \in {0, 1}
          /\ lastOp'.displayCalls = 1 => displayed' = lastOp'.resolved
          /\ lastOp'.displayCalls = 0 => displayed' = displayed
          /\ ( /\ Resolved
               /\ lastOp'.date = lastOp.date
               /\ manualOverride' = manualOverride )
             => lastOp'.displayCalls = 0 ]_vars

\* C3 witness: an updateStatus call for a manual status that was suppressed
C3_Witness ==
    /\ lastOp.name = "updateStatus"
    /\ Resolved
    /\ lastOp.displayCalls = 0
    /\ lastOp.resolved[1].isManual
    /\ statusCache = lastOp.resolved

\* C4: a step that runs updateStatus emits exactly one businessStatusChange
\* event when the status is displayed and none when it is suppressed; the
\* event carries the new status, the current time and the isManual flag of
\* that status.
C4_EventPerPush ==
    [][ lastOp'.resolved # <<>> =>
          /\ Len(lastOp'.events) = lastOp'.displayCalls
          /\ Len(lastOp'.events) = IF DiffersFromPushed(lastOp'.resolved[1]) THEN 1 ELSE 0
          /\ \A i \in 1..Len(lastOp'.events) :
                /\ lastOp'.events[i].status = lastOp'.resolved[1]
                /\ <<lastOp'.events[i].status>> = statusCache'
                /\ lastOp'.events[i].timestamp = now'
                /\ lastOp'.events[i].isManual = lastOp'.resolved[1].isManual ]_vars

\* C4 witness: an event for a manual status was emitted
C4_Witness ==
    /\ Resolved
    /\ lastOp.displayCalls = 1
    /\ Len(lastOp.events) = 1
    /\ lastOp.events[1].isManual

\* a candidate is eligible at instant t
Eligible(item, t) ==
    /\ item.publishedAt # <<>>
    /\ item.startTime = <<>> \/ item.startTime[1] <= t
    /\ item.endTime = <<>> \/ item.endTime[1] >= t

\* the priority of a candidate, a missing priority counting as 1
EffectivePriority(item) == IF item.priority = <<>> THEN 1 ELSE item.priority[1]

\* the step just taken applied findActiveOverride to lastOp.candidates
Selected == lastOp.name = "findActiveOverride"

\* C5: findActiveOverride returns none or a member of the list that is
\* published, has started (or has no start) and has not ended (or has no
\* end); it returns none exactly when no candidate is eligible.
C5_SelectedIsEligible ==
    Selected =>
        /\ lastOp.selected # <<>> =>
              /\ \E i \in 1..Len(lastOp.candidates) : lastOp.candidates[i] = lastOp.selected[1]
              /\ Eligible(lastOp.selected[1], now)
        /\ lastOp.selected = <<>> <=>
              ~\E i \in 1..Len(lastOp.candidates) : Eligible(lastOp.candidates[i], now)

\* C5 witness: the only candidate is published and has ended; none is selected
C5_Witness ==
    /\ Selected
    /\ Len(lastOp.candidates) = 1
    /\ lastOp.candidates[1].publishedAt # <<>>
    /\ lastOp.candidates[1].endTime # <<>>
    /\ lastOp.candidates[1].endTime[1] < now
    /\ lastOp.selected = <<>>

\* C6: the record findActiveOverride returns has the greatest priority of
\* all eligible candidates, a missing priority counting as 1; an eligible
\* closed record of priority 5 wins over an eligible special record of
\* priority 1 and resolves to emergency-closed.
C6_SelectedHasMaxPriority ==
    Selected =>
        /\ lastOp.selected # <<>> =>
              \A i \in 1..Len(lastOp.candidates) :
                  Eligible(lastOp.candidates[i], now) =>
                      EffectivePriority(lastOp.selected[1]) >= EffectivePriority(lastOp.candidates[i])
        /\ ( \E i, j \in 1..Len(lastOp.candidates) :
                /\ Eligible(lastOp.candidates[i], now)
                /\ lastOp.candidates[i].status = Scalar("closed")
                /\ lastOp.candidates[i].priority = <<5>>
                /\ Eligible(lastOp.candidates[j], now)
                /\ lastOp.candidates[j].status = Scalar("special")
                /\ lastOp.candidates[j].priority = <<1>>
                /\ Len(lastOp.candidates) = 2 )
             => /\ lastOp.selected # <<>>
                /\ lastOp.selected[1].status = Scalar("closed")
                /\ lastOp.resolved[1].type = "emergency-closed"

\* C6 witness: the special record of priority 1 comes first in the list and
\* the closed record of priority 5 is selected
C6_Witness ==
    /\ Selected
    /\ Len(lastOp.candidates) = 2
    /\ Eligible(lastOp.candidates[1], now)
    /\ lastOp.candidates[1].status = Scalar("special")
    /\ lastOp.candidates[1].priority = <<1>>
    /\ Eligible(lastOp.candidates[2], now)
    /\ lastOp.candidates[2].priority = <<5>>
    /\ lastOp.selected = <<lastOp.candidates[2]>>
    /\ lastOp.resolved[1].type = "emergency-closed"

\* C7: of two eligible candidates of equal priority and different updatedAt
\* the one with the later updatedAt is selected, in either list order.
C7_TieBrokenByUpdatedAt ==
    ( /\ Selected
      /\ Len(lastOp.candidates) = 2
      /\ Eligible(lastOp.candidates[1], now)
      /\ Eligible(lastOp.candidates[2], now)
      /\ EffectivePriority(lastOp.candidates[1]) = EffectivePriority(lastOp.candidates[2])
      /\ lastOp.candidates[1].updatedAt # lastOp.candidates[2].updatedAt )
    => lastOp.selected =
          IF lastOp.candidates[1].updatedAt > lastOp.candidates[2].updatedAt
          THEN <<lastOp.candidates[1]>>
          ELSE <<lastOp.candidates[2]>>

\* the step being taken is a call checkManualOverride(force)
Checking(force) ==
    /\ lastOp'.name \in {"checkManualOverride", "refreshInBackground"}
    /\ lastOp'.force = force

\* C8: a non-forced checkManualOverride less than 30 seconds after the
\* previous refresh calls neither the client nor the Content Service and
\* leaves the override, the persisted entry, the displayed status, the client
\* cache and lastCMSCheck as they were.
C8_RecentRefreshIsNoOp ==
    [][ ( /\ Checking(FALSE)
          /\ lastCMSCheck # <<>>
          /\ now - lastCMSCheck[1] < ThirtySeconds )
        => /\ lastOp'.clientCalls = 0
           /\ lastOp'.requests = 0
           /\ lastOp'.displayCalls = 0
           /\ lastOp'.storageOps = <<>>
           /\ UNCHANGED << manualOverride, overrideAssigned, localStorage, displayed,
                           statusCache, lastCMSCheck, cache, inflight >> ]_vars

\* C8 witness: a non-forced call 29.999 s after a refresh was skipped while
\* the client was reachable and held no fresh cache entry
C8_Witness ==
    /\ lastOp.name = "checkManualOverride"
    /\ ~lastOp.force
    /\ lastOp.outcome = "skipped"
    /\ windowApp
    /\ cache = <<>>
    /\ lastCMSCheck # <<>>
    /\ now - lastCMSCheck[1] = ThirtySeconds - 1

\* C9: a non-forced checkManualOverride 30 seconds or more after the
\* previous refresh is not skipped and asks the client for the candidates.
C9_RefreshAfterThirtySeconds ==
    [][ ( /\ Checking(FALSE)
          /\ windowApp
          /\ lastCMSCheck # <<>>
          /\ now - lastCMSCheck[1] >= ThirtySeconds )
        => /\ lastOp'.outcome # "skipped"
           /\ lastOp'.clientCalls = 1 ]_vars

\* C10: a forced checkManualOverride always sends a new request to the
\* Content Service; it never selects from data fetched before the call.
C10_ForcedRefreshFetches ==
    [][ (Checking(TRUE) /\ windowApp)
        => /\ lastOp'.requests = 1
           /\ lastOp'.outcome = "requested" ]_vars

\* a storage operation of the step threw
StorageThrew(op) ==
    \E k \in 1..Len(op.storageOps) : op.storageOps[k] \in {"set-throws", "remove-throws"}

\* the step op completed a refresh: the answer to the request arrived, or the
\* client answered from its cache
RefreshDone(op) ==
    \/ op.name = "loadComplete"
    \/ op.name \in {"checkManualOverride", "refreshInBackground"} /\ op.outcome = "cached"

\* the step op completed a refresh whose candidates were fetched and whose
\* storage operations all worked
RefreshSucceeded(op) ==
    /\ RefreshDone(op)
    /\ op.outcome \in {"ok", "cached"}
    /\ ~StorageThrew(op)

\* the candidates the refresh just completed has read
Fetched == IF lastOp.name = "loadComplete" THEN handleGet(cms) ELSE cache[1].data

\* C11: after every refresh that completes successfully the override held
\* is the selection over the fetched candidates, and the persisted entry is
\* present exactly when a record was selected and then holds that record.
C11_RefreshEstablishesSelection ==
    RefreshSucceeded(lastOp) =>
        /\ lastOp.selected = findActiveOverride(Fetched, now)
        /\ manualOverride = lastOp.selected
        /\ (localStorage # <<>>) <=> (lastOp.selected # <<>>)
        /\ lastOp.selected # <<>> => localStorage = <<JSONstringify(lastOp.selected[1])>>

\* the record selected has the id of the override held, or none is selected
\* and none is held
SameId(sel, held) ==
    \/ sel = <<>> /\ held = <<>>
    \/ sel # <<>> /\ held # <<>> /\ sel[1].id = held[1].id

\* C12: a refresh that selects a record with the id of the override held, or
\* none while none is held, neither writes to nor removes from the persistent
\* store, keeps the override held and does not run updateStatus.
C12_SameSelectionIsUnchanged ==
    [][ (RefreshDone(lastOp') /\ SameId(lastOp'.selected, manualOverride))
        => /\ lastOp'.storageOps = <<>>
           /\ lastOp'.resolved = <<>>
           /\ manualOverride' = manualOverride
           /\ localStorage' = localStorage ]_vars

\* the request of the refresh failed: no answer, a non-2xx answer, or a body
\* without a contents array
FetchFailed(op) ==
    /\ op.name = "loadComplete"
    /\ op.outcome \in {"network", "http-error", "notfound", "malformed"}

\* C13: after a refresh whose request failed (and whose storage operations
\* worked) no override is held, no entry is persisted, and the status the
\* resolver computes next is the automatic status of the current time.
C13_FailedRefreshClears ==
    (FetchFailed(lastOp) /\ ~StorageThrew(lastOp)) =>
        /\ manualOverride = <<>>
        /\ localStorage = <<>>
        /\ Resolve(manualOverride, now) = calculateAutoStatus(now)

\* C14: when clearManualOverride returns, no override entry is left in the
\* persistent store.
C14_ClearRemovesPersistedEntry ==
    [][ lastOp'.name = "clearManualOverride" => localStorage' = <<>> ]_vars

\* the step op is the one in which a setManualOverride whose POST succeeded
\* returns: its checkManualOverride() was skipped, or the request of that
\* checkManualOverride() was answered and applied
SetReturned(op) ==
    \/ op.name = "setComplete" /\ op.outcome = "skipped"
    \/ op.name = "loadComplete" /\ op.origin = "set" /\ op.outcome = "ok" /\ ~StorageThrew(op)

\* the displayed status shows what the override sel resolves to
Shows(shown, sel, t) ==
    /\ shown # <<>>
    /\ shown[1].type = Resolve(sel, t).type
    /\ shown[1].message = Resolve(sel, t).message
    /\ shown[1].isManual = Resolve(sel, t).isManual

\* C15: when setManualOverride returns after a successful create, the
\* override held is the selection over the candidates the Content Service
\* now has, the created record included, and the displayed status is the one
\* that selection resolves to, however recent the previous refresh was.
C15_SetThenForcedRefresh ==
    [][ SetReturned(lastOp')
        => /\ manualOverride' = findActiveOverride(handleGet(cms'), now')
           /\ Shows(displayed', findActiveOverride(handleGet(cms'), now'), now') ]_vars

\* C16: clearManualOverride of a held override sends a delete request to the
\* Content Service, and a refresh completed directly after the clear does
\* not select the cleared record again.
C16_ClearDeletesRecord ==
    [][ /\ (lastOp'.name = "clearManualOverride" /\ lastOp'.cleared # <<>>)
           => lastOp'.requests = 1
        /\ ( /\ lastOp.name = "clearManualOverride"
             /\ lastOp.cleared # <<>>
             /\ RefreshDone(lastOp')
             /\ lastOp'.outcome \in {"ok", "cached"} )
           => \/ lastOp'.selected = <<>>
              \/ lastOp'.selected[1].id # lastOp.cleared[1].id ]_vars

FiveMinutes == 5 * MinuteMs

\* the step just taken was BusinessHours.init
InitDone == lastOp.name = "init"

\* the age of the snapshot init has read
SnapshotAge == now - lastOp.snapshot[1].fetchedAt

\* the override o is none or the record of the persisted entry
FromStore(o) ==
    \/ o = <<>>
    \/ /\ localStorage # <<>>
       /\ localStorage[1].valid
       /\ o = <<localStorage[1].value>>

\* C17: after init, with no snapshot or a snapshot of age 5 minutes or more
\* the override held does not come from the snapshot (it is none or the
\* persisted record); with a snapshot younger than 5 minutes the only record
\* adopted from it is the one findActiveOverride selects from its contents.
C17_SnapshotUsedOnlyWhenFresh ==
    InitDone =>
        /\ (lastOp.snapshot = <<>> \/ SnapshotAge >= FiveMinutes) => FromStore(manualOverride)
        /\ (lastOp.snapshot # <<>> /\ SnapshotAge < FiveMinutes) =>
              LET sel == findActiveOverride(lastOp.snapshot[1].contents, now)
              IN  IF sel # <<>> THEN manualOverride = sel ELSE FromStore(manualOverride)

\* C17 witness: a snapshot of age exactly 5 minutes holds an eligible record
\* and init holds no override
C17_Witness ==
    /\ InitDone
    /\ lastOp.snapshot # <<>>
    /\ SnapshotAge = FiveMinutes
    /\ findActiveOverride(lastOp.snapshot[1].contents, now) # <<>>
    /\ manualOverride = <<>>

\* init has consulted the persistent store
StoreConsulted == InitDone /\ lastOp.storageOps # <<>>

\* C18: init restores the persisted entry only if it parses and its endTime
\* is missing or has not passed; an entry whose endTime has passed is never
\* the override held after init; an unparsable or unreadable entry leaves no
\* override, and init still completes and displays a status.
C18_RestoreOnlyUnexpired ==
    InitDone =>
        /\ (StoreConsulted /\ manualOverride # <<>>) =>
              /\ localStorage # <<>>
              /\ localStorage[1].valid
              /\ manualOverride = <<localStorage[1].value>>
              /\ \/ manualOverride[1].endTime = <<>>
                 \/ manualOverride[1].endTime[1] >= now
        /\ ( /\ localStorage # <<>>
             /\ localStorage[1].valid
             /\ localStorage[1].value.endTime # <<>>
             /\ localStorage[1].value.endTime[1] < now )
           => manualOverride # <<localStorage[1].value>>
        /\ ( StoreConsulted /\ ( \/ lastOp.storageOps = <<"get-throws">>
                                  \/ (localStorage # <<>> /\ ~localStorage[1].valid) ) )
           => manualOverride = <<>>
        /\ phase = "ready"
        /\ ~lastOp.rejected
        /\ displayed # <<>>

\* C18 witness: the store holds an entry whose endTime has passed, init has
\* consulted the store and holds no override
C18_Witness ==
    /\ StoreConsulted
    /\ lastOp.storageOps = <<"get">>
    /\ localStorage # <<>>
    /\ localStorage[1].valid
    /\ localStorage[1].value.endTime # <<>>
    /\ localStorage[1].value.endTime[1] < now
    /\ manualOverride = <<>>

\* the snapshot init has read is usable and yields an active override
SnapshotYields ==
    /\ lastOp.snapshot # <<>>
    /\ SnapshotAge < FiveMinutes
    /\ findActiveOverride(lastOp.snapshot[1].contents, now) # <<>>

\* the persisted entry is usable: readable, parsable, not expired
StoreUsable ==
    /\ lastOp.storageOps # <<"get-throws">>
    /\ localStorage # <<>>
    /\ localStorage[1].valid
    /\ \/ localStorage[1].value.endTime = <<>>
       \/ localStorage[1].value.endTime[1] > now

\* C19: after init, if the snapshot is usable and yields an active override
\* that override is held and the store was not read; otherwise, if the
\* persisted entry is usable it is held; otherwise no override is held and
\* the status displayed is the automatic status of the current time.
C19_StartupPrecedence ==
    InitDone =>
        IF SnapshotYields
        THEN /\ manualOverride = findActiveOverride(lastOp.snapshot[1].contents, now)
             /\ lastOp.storageOps = <<>>
        ELSE IF StoreUsable
        THEN manualOverride = <<localStorage[1].value>>
        ELSE /\ manualOverride = <<>>
             /\ lastOp.displayCalls = 1
             /\ displayed = <<calculateAutoStatus(now)>>

\* C19 witness: the snapshot yields an override while the store holds a
\* usable entry of another record; the snapshot's record is held
C19_Witness ==
    /\ InitDone
    /\ SnapshotYields
    /\ localStorage # <<>>
    /\ localStorage[1].valid
    /\ localStorage[1].value.endTime = <<>>
    /\ manualOverride # <<localStorage[1].value>>
    /\ manualOverride # <<>>

\* the queries of loadBusinessStatus that await their answer
OutstandingLoads == { k \in 1..Len(inflight) : inflight[k].op = "load" }

\* C20: at every instant at most one override query to the Content Service
\* is outstanding; a refresh requested while one is outstanding starts no
\* second query.
C20_SingleFlight == Cardinality(OutstandingLoads) <= 1


\* the operations that run the refresh of checkManualOverride to its end
RefreshOps == {"checkManualOverride", "refreshInBackground", "loadComplete"}

\* the step just taken called op of localStorage for the persisted entry
StoreCalled(ops) == \E k \in 1..Len(lastOp'.storageOps) : lastOp'.storageOps[k] \in ops

\* C21: the persisted override entry is written only by a refresh that has
\* just computed a present selection, and what is written is that selection;
\* it is read only by init, once, before any refresh has completed; no
\* operation after init reads it.
C21_WrittenByRefreshReadByInit ==
    [][ /\ (localStorage' # localStorage /\ localStorage' # <<>>) =>
              /\ lastOp'.name \in RefreshOps
              /\ lastOp'.selected # <<>>
              /\ localStorage' = <<[valid |-> TRUE, value |-> lastOp'.selected[1]]>>
        /\ StoreCalled({"set", "set-throws"}) =>
              /\ lastOp'.name \in RefreshOps
              /\ lastOp'.selected # <<>>
        /\ StoreCalled({"get", "get-throws"}) =>
              /\ lastOp'.name = "init"
              /\ phase = "new"
              /\ lastCMSCheck = <<>>
        /\ phase = "ready" => ~StoreCalled({"get", "get-throws"})
      ]_vars

\* C21 witness: a refresh that selected record b has persisted it
C21_Witness ==
    /\ lastOp.name = "loadComplete"
    /\ lastOp.storageOps = <<"set">>
    /\ lastOp.selected # <<>>
    /\ localStorage = <<JSONstringify(lastOp.selected[1])>>
    /\ lastOp.selected[1].id = "b"


\* the types a status of the engine can have
StatusTypes == {"open", "last-order", "closed", "holiday",
                "emergency-closed", "short-hours", "special"}

\* C22: in every state reached after init, under any sequence of refresh
\* answers, store faults, clears and clock advances, getCurrentStatus()
\* (this.statusCache) is present and its type is one of open, last-order,
\* closed, holiday, emergency-closed, short-hours, special; the same holds
\* for the status shown.
C22_StatusAlwaysPresent ==
    phase = "ready" =>
        /\ statusCache # <<>>
        /\ statusCache[1].type \in StatusTypes
        /\ displayed # <<>>
        /\ displayed[1].type \in StatusTypes

\* C22 witness: while an override of an unrecognised kind is held, an update
\* has pushed a status of the schedule
C22_Witness ==
    /\ phase = "ready"
    /\ manualOverride # <<>>
    /\ HeldKind \notin KnownKinds
    /\ lastOp.name = "updateStatus"
    /\ lastOp.displayCalls = 1
    /\ statusCache[1].type = "closed"


\* C23: after a refresh in which a call of the persistent store threw
\* (setItem or removeItem), the refresh has completed without raising, the
\* override held is the selection over the fetched candidates, and the
\* status shown is the one that selection resolves to.
C23_StoreFailureIgnored ==
    (RefreshDone(lastOp) /\ StorageThrew(lastOp)) =>
        /\ ~lastOp.rejected
        /\ lastOp.selected = findActiveOverride(Fetched, now)
        /\ manualOverride = lastOp.selected
        /\ Shows(displayed, lastOp.selected, now)


\* the step just taken applied calculateAutoStatus to a date
Calculated == lastOp.name = "calculateAutoStatus"

\* the date a schedule operation was applied to, and the status it returned
GivenDate == lastOp.date[1]
AutoStatus == lastOp.resolved[1]

\* the date t lies in the range Dec 29 - Jan 3
InHolidayRange(t) ==
    LET day == DayIndex(t)
    IN  day >= 29 - EpochDate /\ day <= (31 - EpochDate) + 3

\* the date t falls on the closed weekday (Monday)
OnClosedWeekday(t) == (EpochWeekday + DayIndex(t)) % 7 = 1

\* the messages of the statuses decided by the time of day
TimeOfDayMessages == {"preparing", "open", "last-order", "finished"}

\* C24: calculateAutoStatus decides in a fixed order: a date in the holiday
\* range yields holiday, also on the closed weekday; otherwise a date on the
\* closed weekday yields closed (regular closing day) at every hour; only
\* otherwise the status is one of those decided by the time of day.
C24_HolidayThenClosedDayThenTime ==
    Calculated =>
        /\ InHolidayRange(GivenDate) =>
              AutoStatus.type = "holiday" /\ AutoStatus.message = "closed-for-holiday"
        /\ (~InHolidayRange(GivenDate) /\ OnClosedWeekday(GivenDate)) =>
              AutoStatus.type = "closed" /\ AutoStatus.message = "regular-closing-day"
        /\ (~InHolidayRange(GivenDate) /\ ~OnClosedWeekday(GivenDate)) =>
              AutoStatus.message \in TimeOfDayMessages
        /\ ~AutoStatus.isManual

\* C24 witness: holiday resolved for Monday Dec 29 during business hours
C24_Witness ==
    /\ Calculated
    /\ GivenDate = AtTime(2, 19, 0)
    /\ OnClosedWeekday(GivenDate)
    /\ AutoStatus.type = "holiday"


\* the whole minutes passed since local midnight of the date t
MinuteOfDay(t) == (t % DayMs) \div MinuteMs

\* the date t is neither in the holiday range nor on the closed weekday
NormalDay(t) == ~InHolidayRange(t) /\ ~OnClosedWeekday(t)

\* C25: on a normal day, with m the minute of the day (t = hour + minute/60,
\* seconds left out), calculateAutoStatus yields closed (preparing) if
\* m < openTime, open if openTime <= m < lastOrderTime, last-order if
\* lastOrderTime <= m < closeTime and closed (finished) if m >= closeTime;
\* exactly at lastOrderTime it is last-order, exactly at closeTime closed.
C25_TimeOfDayBands ==
    (Calculated /\ NormalDay(GivenDate)) =>
        LET m == MinuteOfDay(GivenDate)
        IN  /\ m < openTime =>
                  AutoStatus.type = "closed" /\ AutoStatus.message = "preparing"
            /\ (m >= openTime /\ m < lastOrderTime) =>
                  AutoStatus.type = "open" /\ AutoStatus.message = "open"
            /\ (m >= lastOrderTime /\ m < closeTime) =>
                  AutoStatus.type = "last-order" /\ AutoStatus.message = "last-order"
            /\ m >= closeTime =>
                  AutoStatus.type = "closed" /\ AutoStatus.message = "finished"

\* C25 witness: last-order resolved for Tuesday Jan 6 at 20:30:00.000
C25_Witness ==
    /\ Calculated
    /\ GivenDate = AtTime(10, 20, 30)
    /\ MinuteOfDay(GivenDate) = lastOrderTime
    /\ AutoStatus.type = "last-order"

\* the status s carries the field name
HasField(s, name) == name \in DOMAIN s

\* C26: remainingMinutes is present exactly on open statuses and is the
\* number of minutes from the minute of the day to lastOrderTime;
\* minutesToOpen is present exactly on closed (preparing) statuses and is
\* the number of minutes to openTime; both are non-negative and never
\* present together; Tuesday 19:00 yields open with remainingMinutes = 90.
C26_MinuteCounters ==
    Calculated =>
        LET m == MinuteOfDay(GivenDate)
        IN  /\ HasField(AutoStatus, "remainingMinutes") <=> AutoStatus.type = "open"
            /\ HasField(AutoStatus, "minutesToOpen") <=> AutoStatus.message = "preparing"
            /\ HasField(AutoStatus, "remainingMinutes") =>
                  /\ AutoStatus.remainingMinutes = lastOrderTime - m
                  /\ AutoStatus.remainingMinutes >= 0
            /\ HasField(AutoStatus, "minutesToOpen") =>
                  /\ AutoStatus.type = "closed"
                  /\ AutoStatus.minutesToOpen = openTime - m
                  /\ AutoStatus.minutesToOpen >= 0
            /\ ~(HasField(AutoStatus, "remainingMinutes") /\ HasField(AutoStatus, "minutesToOpen"))
            /\ GivenDate = AtTime(10, 19, 0) =>
                  AutoStatus.type = "open" /\ AutoStatus.remainingMinutes = 90

\* C26 witness: Tuesday Jan 6, 19:00 resolved to open with 90 minutes left
C26_Witness ==
    /\ Calculated
    /\ GivenDate = AtTime(10, 19, 0)
    /\ AutoStatus.type = "open"
    /\ HasField(AutoStatus, "remainingMinutes")
    /\ AutoStatus.remainingMinutes = 90


\* the step just taken applied getNextOpenTime to a date
NextOpenAsked == lastOp.name = "getNextOpenTime"

\* the Date getNextOpenTime returned
NextOpen == lastOp.resolved[1].nextOpen

\* the day with index d is a business day
BusinessDay(d) == ~InHolidayRange(d * DayMs) /\ ~OnClosedWeekday(d * DayMs)

\* C27: getNextOpenTime returns (after at most a week of days tried) the
\* earliest calendar day strictly after the given date that is neither the
\* closed weekday nor in the holiday range, at openTime o'clock sharp; the
\* day of the given date is never returned.
C27_NextOpenIsEarliestLaterBusinessDay ==
    NextOpenAsked =>
        /\ DayIndex(NextOpen) > DayIndex(GivenDate)
        /\ DayIndex(NextOpen) <= DayIndex(GivenDate) + 7
        /\ BusinessDay(DayIndex(NextOpen))
        /\ \A d \in (DayIndex(GivenDate) + 1)..(DayIndex(NextOpen) - 1) : ~BusinessDay(d)
        /\ NextOpen % DayMs = openTime * MinuteMs

\* C27 witness: from Sunday Dec 28 after closing, the holiday range is
\* skipped and Sunday Jan 4, 11:00 is returned
C27_Witness ==
    /\ NextOpenAsked
    /\ GivenDate = AtTime(1, 21, 0)
    /\ BusinessDay(DayIndex(GivenDate))
    /\ NextOpen = AtTime(8, 11, 0)


\* the messages of the statuses that announce the next opening
AnnouncingMessages == {"closed-for-holiday", "regular-closing-day", "finished"}

\* the day the detail text of status s announces the opening for: the day
\* after the date t ("tomorrow") or the next business day
StatedOpeningDay(s, t) ==
    IF s.detail.text = "tomorrow-from"
    THEN DayIndex(t) + 1
    ELSE DayIndex(getNextOpenTime(t))

\* C28: for holiday, regular-closing-day and finished statuses, the opening
\* day and the opening time stated in the detail agree with
\* getNextOpenTime of the date and with the configured openTime, and
\* nextOpen is getNextOpenTime of the date.
C28_DetailAgreesWithNextOpen ==
    (Calculated /\ AutoStatus.message \in AnnouncingMessages) =>
        /\ AutoStatus.nextOpen = getNextOpenTime(GivenDate)
        /\ StatedOpeningDay(AutoStatus, GivenDate) = DayIndex(getNextOpenTime(GivenDate))
        /\ AutoStatus.detail.time = << openTime \div 60, openTime % 60 >>


\* C29: whenever updateStatus has resolved a manual status for the current
\* time, an override is held that is active at that time: published,
\* started (or without start) and not ended (or without end).
C29_ManualOnlyWhileActive ==
    (Resolved /\ lastOp.date[1] = now /\ lastOp.resolved[1].isManual) =>
        /\ manualOverride # <<>>
        /\ Eligible(manualOverride[1], now)


\* C30: loadBusinessStatus returns from its cache, without a request, only
\* when it was called without forceRefresh and an entry of age < 30 s
\* exists, and then returns the data of that entry; with an entry of age
\* >= 30 s it sends a request; an entry is stored only when a request ended
\* in a validated answer, holding the contents returned; a 404, a malformed
\* answer and an error return the empty list and leave the cache as it was.
C30_CacheServedOnlyWhenFresh ==
    [][ /\ (lastOp'.name = "loadBusinessStatus" /\ lastOp'.outcome = "cached") =>
              /\ ~lastOp'.force
              /\ cache # <<>>
              /\ now - cache[1].timestamp < 30 * SecondMs
              /\ lastOp'.candidates = cache[1].data
              /\ lastOp'.requests = 0
              /\ inflight' = inflight
        /\ (/\ lastOp'.name = "loadBusinessStatus"
            /\ cache # <<>>
            /\ now - cache[1].timestamp >= 30 * SecondMs) =>
              /\ lastOp'.outcome = "requested"
              /\ Len(inflight') = Len(inflight) + 1
        /\ (cache' # cache /\ cache' # <<>>) =>
              /\ lastOp'.name = "loadBusinessStatusDone"
              /\ lastOp'.outcome = "ok"
              /\ cache' = <<[data |-> lastOp'.candidates, timestamp |-> now]>>
        /\ (lastOp'.name = "loadBusinessStatusDone" /\ lastOp'.outcome # "ok") =>
              /\ cache' = cache
              /\ lastOp'.candidates = <<>>
      ]_vars

\* C30 witness: a call without forceRefresh has sent a request although an
\* entry of exactly 30 s is cached
C30_Witness ==
    /\ lastOp.name = "loadBusinessStatus"
    /\ ~lastOp.force
    /\ lastOp.outcome = "requested"
    /\ cache # <<>>
    /\ now - cache[1].timestamp = BusinessStatusTTL


\* the step just taken ended a request of loadBusinessStatus
LoadEnded == lastOp.name = "loadBusinessStatusDone"

\* C31: loadBusinessStatus never rejects: when the Content Service is
\* unreachable after the retries, answers 404 or another non-2xx status, or
\* returns a body whose contents is missing or not an array, it resolves to
\* the empty list; a validated answer resolves to the contents answered.
C31_LoadNeverRejects ==
    LoadEnded =>
        /\ ~lastOp.rejected
        /\ lastOp.outcome \in {"network", "http-error", "notfound", "malformed"} =>
              lastOp.candidates = <<>>
        /\ lastOp.outcome = "ok" =>
              /\ cache # <<>>
              /\ lastOp.candidates = cache[1].data

\* C31 witness: a request answered with a non-2xx status while the Content
\* Service holds records has resolved to the empty list
C31_Witness ==
    /\ LoadEnded
    /\ lastOp.outcome = "http-error"
    /\ cms # <<>>
    /\ lastOp.candidates = <<>>
    /\ ~lastOp.rejected


\* the step just taken applied createManualStatus to lastOp.selected
Created == lastOp.name = "createManualStatus"

\* the override with its status replaced by the scalar kind
WithScalarStatus(override, kind) == [override EXCEPT !.status = [array |-> FALSE, v |-> <<kind>>]]

\* C32: an override whose status is a non-empty array resolves to exactly
\* the status of the same override with the scalar first element as its
\* status; an override whose status is the empty array resolves to the
\* automatic status of the date, with isManual = FALSE.
C32_ArrayLikeFirstElement ==
    (Created /\ lastOp.selected[1].status.array) =>
        LET o == lastOp.selected[1]
        IN  /\ o.status.v # <<>> =>
                  lastOp.resolved[1] =
                      createManualStatus(WithScalarStatus(o, o.status.v[1]), lastOp.date[1])
            /\ o.status.v = <<>> =>
                  /\ lastOp.resolved[1] = calculateAutoStatus(lastOp.date[1])
                  /\ ~lastOp.resolved[1].isManual

\* C32 witness: the array [short, closed] has resolved to short-hours
C32_Witness ==
    /\ Created
    /\ lastOp.selected[1].status = [array |-> TRUE, v |-> <<"short", "closed">>]
    /\ lastOp.resolved[1].isManual
    /\ lastOp.resolved[1].type = "short-hours"


\* C33: after every updateStatus for the current time, getCurrentStatus()
\* (this.statusCache) is the status just resolved, in all of its fields.
C33_CurrentStatusIsFresh ==
    (Resolved /\ lastOp.date[1] = now) => statusCache = lastOp.resolved


\* C34: the forced refresh scheduled by init always calls the Content
\* Service client (answered from its cache or by a request), whenever its
\* timer fires relative to the rest of the start-up; when the client answers
\* at once, lastCMSCheck is recorded in the same step.
C34_BackgroundRefreshReachesClient ==
    lastOp.name = "refreshInBackground" =>
        /\ lastOp.outcome \in {"cached", "requested"}
        /\ lastOp.clientCalls = 1
        /\ lastOp.outcome = "cached" => lastCMSCheck = <<now>>


\* the live intervals registered under name
LiveIntervals(name) == { l \in liveTimers : l.kind = "interval" /\ l.name = name }

\* C35: after any sequence of add, remove, pause, resume and cleanup calls
\* (and of timer callbacks), at most one live interval exists per timer
\* name, and after add(name, ...) the timers map holds the entry of that
\* name with the handle of the live interval.
C35_OneLiveIntervalPerName ==
    \A name \in TimerNames :
        /\ Cardinality(LiveIntervals(name)) <= 1
        /\ \A l \in LiveIntervals(name) :
              timers[name] # <<>> /\ timers[name][1].timer = l.handle

\* C36: every live interval or timeout is recorded in the timers or
\* timeouts map under its name, so that cleanup() leaves none alive.
C36_EveryTimerRecorded ==
    /\ \A l \in liveTimers :
          IF l.kind = "interval"
          THEN timers[l.name] # <<>> /\ timers[l.name][1].timer = l.handle
          ELSE timeouts[l.name] # <<>> /\ timeouts[l.name][1].timeout = l.handle
    /\ lastOp.name = "cleanup" => liveTimers = {}


\* the loadNews calls whose request is outstanding
NewsInFlight == { c \in newsCalls : c.state = "fetching" }

\* C37: at most one news request is in flight at any instant, for every
\* interleaving of overlapping loadNews calls and their answers.
C37_OneNewsRequestInFlight == Cardinality(NewsInFlight) <= 1


\* the step just taken ran fetchWithRetry to its end
Fetching == lastOp.name = "fetchWithRetry"

\* C38: fetchWithRetry ends after 1 to 4 calls of fetch; every call but the
\* last threw an error other than AbortError; if the last call gave a
\* response, that response is returned whatever its status; if it threw, the
\* error is rethrown, and it was the fourth call or an AbortError; before
\* retry k the wait was 2^(k-1) seconds.
C38_RetryTerminates ==
    Fetching =>
        LET o == lastOp.outcomes
            r == lastOp.result
            n == r.attempts
        IN  /\ n \in 1..4
            /\ \A k \in 0..(n - 2) : o[k].kind = "error" /\ o[k].name # "AbortError"
            /\ o[n - 1].kind = "response" => r.result = "returned"
            /\ o[n - 1].kind = "error" =>
                  /\ r.result = "thrown"
                  /\ n = 4 \/ o[n - 1].name = "AbortError"
            /\ r.value = o[n - 1]
            /\ Len(r.delays) = n - 1
            /\ \A k \in 1..(n - 1) :
                  r.delays[k] = (CASE k = 1 -> 1000 [] k = 2 -> 2000 [] k = 3 -> 4000)

\* C38 witness: two failures, then an AbortError on the third call, which is
\* rethrown after waits of 1 s and 2 s
C38_Witness ==
    /\ Fetching
    /\ lastOp.outcomes[2].name = "AbortError"
    /\ lastOp.result.attempts = 3
    /\ lastOp.result.result = "thrown"
    /\ lastOp.result.delays = <<1000, 2000>>


\* the step just taken was a request to the proxy
Handled == lastOp.name = "handler"

\* the Authorization header is "Bearer", whitespace, and the non-empty value
\* of ADMIN_TOKEN
HasBearerToken(req, env) ==
    /\ req.authorization # <<>>
    /\ env.ADMIN_TOKEN # <<>>
    /\ env.ADMIN_TOKEN[1] # <<>>
    /\ \E scheme \in {"Bearer", "bearer"}, n \in 1..2 :
          req.authorization[1] = <<scheme>> \o [i \in 1..n |-> " "] \o env.ADMIN_TOKEN[1]

\* C39: a POST, PATCH or DELETE request whose Authorization header is not a
\* bearer token equal to ADMIN_TOKEN is answered 401 and is not forwarded to
\* the Content Service; GET and OPTIONS requests are handled without
\* authentication.
C39_WritesNeedBearerToken ==
    Handled =>
        /\ (/\ lastOp.request.method \in {"POST", "PATCH", "DELETE"}
            /\ ~HasBearerToken(lastOp.request, lastOp.env))
           => (lastOp.response.status = 401 /\ ~lastOp.response.forwarded)
        /\ lastOp.request.method \in {"GET", "OPTIONS"}
           => (~lastOp.response.authChecked /\ lastOp.response.status # 401)

====
